---- MODULE Spec2Model ----
(***************************************************************************)
(* Holokernel2: the memory economy (bump arena, allocation metadata,       *)
(* emergent garbage collection), the Collective (thought FIFO), the        *)
(* holographic associative memory and the entity genomes.                  *)
(*                                                                         *)
(* The repository holds several revisions of kernel.c.  The variable rev   *)
(* names the build that runs:                                              *)
(*   "A"  src/unnamed/part_000:376-1090, the fixed-metadata revision:      *)
(*        metadata records come from a pre-allocated pool, the collector   *)
(*        sweeps garbage records, update_entities sacrifices genes.        *)
(*   "C"  src/unnamed/part_000:1937-2905, the advanced-evolution revision: *)
(*        kmalloc tracks an allocation by calling itself, kfree tests the  *)
(*        pressure for every pointer, the collector sacrifices entities    *)
(*        and genes.  kmalloc, kfree and the collector of                  *)
(*        src/unnamed/part_001:318-426 are the same text.                  *)
(*   "H"  src/holographic_kernel.c: kmalloc only bumps the offset, kfree   *)
(*        does nothing, the associative memory stores the vectors it is    *)
(*        given.                                                           *)
(*                                                                         *)
(* Every C function is an operator on the machine record m (all globals),  *)
(* evaluated in C's order, so that a call that re-enters the collector     *)
(* (kfree -> collector -> broadcast_thought / destroy_hyper_vector ->      *)
(* kfree -> collector ...) acts on the globals exactly where the C code    *)
(* would.  One function calls another through the operator call, which    *)
(* runs nothing once the machine has stopped.  An action is one call made  *)
(* by the kernel's client.                                                 *)
(*                                                                         *)
(* Sizes are scaled: the arena is KERNEL_HEAP_SIZE bytes, a vector buffer  *)
(* INITIAL_DIMENSIONS * SIZEOF_FLOAT bytes.  All sizes stay far below      *)
(* 2^32, so the uint32_t arithmetic of the allocator never wraps here.     *)
(***************************************************************************)
EXTENDS Integers, Sequences, FiniteSets, TLC

(* ------------------------------ bounds --------------------------------- *)
\* scaled from 0xC0000 (part_000:404)
KERNEL_HEAP_SIZE == 64
\* scaled from 512 (part_000:395)
INITIAL_DIMENSIONS == 1
\* scaled from 512 (part_000:406)
MAX_ALLOCATIONS == 10
\* scaled from 64 (part_000:401)
MAX_THOUGHTS == 2
\* scaled from 128 (part_000:397)
MAX_MEMORY_ENTRIES == 2
\* scaled from 32 (part_000:398)
MAX_ENTITIES == 2
\* scaled from 3 (part_000:399)
INITIAL_ENTITIES == 2
\* sizeof(struct Gene), scaled from 48
GENE_BYTES == 4
\* sizeof(mem_block_t), scaled from 24
MEM_BLOCK_BYTES == 4
\* MAX_DIMENSIONS, four times INITIAL_DIMENSIONS as in the source
MAX_DIMENSIONS == 4
\* deepest nesting of collector calls followed before the stack is taken to
\* have overflowed
MaxDepth == 12
\* the client makes at most MaxCalls calls in a run
MaxCalls == 4
\* the sacrifice period of update_entities, scaled from 500 (part_000:950)
SACRIFICE_PERIOD == 2
\* the main loop's idle increments of global_timestamp, taken IDLE_STRIDE at a
\* time, up to MaxTime
IDLE_STRIDE == 200
MaxTime == 400

\* global_timestamp is a uint32_t: scaled from 2^32
TICK_MODULUS == 512
\* the update interval of kmain's loop, scaled from 500000
UPDATE_INTERVAL == 100
\* kmain is followed for at most MaxSteps steps
MaxSteps == 700
\* the fill loop of create_hyper_vector is followed over LcgDims dimensions
\* (vec.capacity, scaled from 512)
LcgDims == 8

(* ----------------------------- constants ------------------------------- *)
NULL == 0
SIZEOF_FLOAT == 4
ALIGN_POOL == 4
ALIGN_REC == 8
\* kfree runs the collector when free / size < 0.2, i.e. free * 5 < size
GC_FREE_DIVISOR == 5
\* apply_kernel_patch: total_size > 1024
PATCH_CEILING == 1024
MAX_GENES_PER_ENTITY == 16
kernel_heap == 16

Revisions == {"A", "C", "H"}

VARIABLES
    rev,                \* the build that runs
    heap_offset,        \* static uint32_t heap_offset
    metadata_pool,      \* block id -> mem_block_t
    free_metadata_list, \* head of the free records (rev A)
    allocation_list,    \* head of the live records
    allocation_counter,
    gc_metadata_count,
    collective,         \* struct CollectiveConsciousness
    holo_system,        \* struct HolographicSystem
    entity_pool,        \* struct Entity entity_pool[MAX_ENTITIES]
    active_entity_count,
    genes,              \* the heap bytes of every struct Gene: gene pointer -> Gene
    crashed,            \* the machine has stopped: the collector recursed without
                        \* end, or spawn_entity halted in while(1)
    returned,           \* history: <<ptr, requested size>> of every successful kmalloc
    collected,          \* history: the pointers whose record the collector has swept
    deactivated,        \* history: the slots of the entities the collector has deactivated
    encoded,            \* history: <<input signature, output signature>> of every encode
    owned,              \* the client's pointers (returned to it, not yet freed by it)
    freed,              \* the pointers the client has freed
    calls,              \* the number of calls the client has made
    patch,              \* the client's KernelPatch
    written,            \* history: <<address, byte count>> of every write of apply_kernel_patch
    pc,                 \* where kmain is: "vocab", "entities", "tasks", "loop"; "client"
                        \* when the functions are called by a client instead
    vocab_i,            \* kmain: the index of load_initial_genome_vocabulary's loop
    last_update,        \* kmain: uint32_t last_update
    lcg,                \* create_hyper_vector's fill loop: seed, i and data[i - 1]
    last,               \* the client's last call: [op, arg, res]
    trace               \* what the last call did, in order

vars == <<rev, heap_offset, metadata_pool, free_metadata_list, allocation_list,
          allocation_counter, gc_metadata_count, collective, holo_system,
          entity_pool, active_entity_count, genes, crashed,
          returned, collected, deactivated, encoded, owned, freed, calls, patch,
          written, pc, vocab_i, last_update, lcg, last, trace>>

(* --------------------------- data structures --------------------------- *)
ZeroVec == [data |-> NULL, capacity |-> 0, active_dims |-> 0,
            hash_sig |-> 0, valid |-> FALSE]

ZeroBlock == [ptr |-> NULL, size |-> 0, allocation_id |-> 0,
              is_garbage |-> FALSE, next |-> NULL]

ZeroEntry == [input_pattern |-> ZeroVec, output_pattern |-> ZeroVec,
              timestamp |-> 0, valid |-> FALSE]

\* KernelPatch patch = {0}
NoPatch == [pattern |-> ZeroVec, replacement |-> ZeroVec, address |-> 0,
            applied |-> FALSE]

\* confidence is kept in thousandths (0.5f is 500)
ZeroEntity == [id |-> 0, state |-> ZeroVec, genome |-> NULL, gene_count |-> 0,
               age |-> 0, is_active |-> FALSE, confidence |-> 0,
               fitness_score |-> 0, mutation_rate |-> 0, task_vector |-> ZeroVec,
               domain_name |-> ""]

\* the seed strings the client passes; two may have one signature
ClientSeeds == {"s1", "s2", "s3"}

\* hash_data over the generated floats: a content signature.  Two seeds may
\* collide ("s1" and "s3" do here).
hash_data(seed) ==
    CASE seed = "SYSTEM_MEMORY_PRESSURE" -> 9
      [] seed = "s1" -> 1
      [] seed = "s2" -> 2
      [] seed = "s3" -> 1
      [] seed = "GENOME_ADAPTIVE" -> 5
      [] seed = "TRAIT_DORMANT" -> 6
      [] seed = "TRAIT_ACTIVE" -> 3
      [] seed = "GENOME_SOCIAL" -> 4
      [] seed = "TRAIT_EMERGENT" -> 8
      [] seed = "network_io_path" -> 10
      [] seed = "ENTITY_ACTIVE_FLAG" -> 11
      [] seed = "ENTITY_DORMANT_FLAG" -> 12
      [] OTHER -> 7

\* a size above one unit is rounded up and then loses a unit
AlignShort(size, a) ==
    IF size > a THEN ((size + a - 1) \div a) * a - a ELSE ((size + a - 1) \div a) * a

\* (size + a - 1) & ~(a - 1)
AlignUp(size, a) == ((size + a - 1) \div a) * a

SetBlock(pool, id, rec) ==
    [x \in (DOMAIN pool) \cup {id} |-> IF x = id THEN rec ELSE pool[x]]

\* The globals as one record.
Machine ==
    [rev |-> rev, heap_offset |-> heap_offset, metadata_pool |-> metadata_pool,
     free_metadata_list |-> free_metadata_list, allocation_list |-> allocation_list,
     allocation_counter |-> allocation_counter, gc_metadata_count |-> gc_metadata_count,
     collective |-> collective, holo_system |-> holo_system,
     entity_pool |-> entity_pool, active_entity_count |-> active_entity_count,
     genes |-> genes, crashed |-> crashed, returned |-> returned,
     patch |-> patch, written |-> written,
     depth |-> 0, trace |-> <<>>]

Emit(m, ev) == [m EXCEPT !.trace = Append(@, ev)]

(* ------------------------------ allocator ------------------------------ *)
initialize_metadata_pool ==
    [i \in 1..MAX_ALLOCATIONS |->
        [ZeroBlock EXCEPT !.next = IF i < MAX_ALLOCATIONS THEN i + 1 ELSE NULL]]

\* the collector is wanted above 50% already
pressure_above_half(m) ==
    (KERNEL_HEAP_SIZE - m.heap_offset) * 2 < KERNEL_HEAP_SIZE

\* (float)(KERNEL_HEAP_SIZE - heap_offset) / (float)KERNEL_HEAP_SIZE < 0.2f
get_system_memory_pressure_high(m) ==
    (KERNEL_HEAP_SIZE - m.heap_offset) * GC_FREE_DIVISOR < KERNEL_HEAP_SIZE

\* kmalloc_pool with the offset advanced before the record is looked for
kmalloc_pool_eager(m, size) ==
    LET aligned_size == AlignUp(size, ALIGN_POOL)
        block == m.free_metadata_list
        ptr == kernel_heap + m.heap_offset
    IN  IF size = 0 THEN [m |-> m, ptr |-> NULL]
        ELSE IF m.heap_offset + aligned_size >= KERNEL_HEAP_SIZE
             THEN [m |-> Emit(m, <<"kmalloc_failed", "arena">>), ptr |-> NULL]
        ELSE IF block = NULL
             THEN [m |-> Emit([m EXCEPT !.heap_offset = @ + aligned_size],
                              <<"kmalloc_failed", "metadata">>), ptr |-> NULL]
        ELSE [m |-> [m EXCEPT
                        !.free_metadata_list = m.metadata_pool[block].next,
                        !.heap_offset = @ + aligned_size,
                        !.metadata_pool[block] =
                            [ptr |-> ptr, size |-> aligned_size,
                             allocation_id |-> m.allocation_counter,
                             is_garbage |-> FALSE, next |-> m.allocation_list],
                        !.allocation_counter = @ + 1,
                        !.allocation_list = block,
                        !.returned = Append(@, <<ptr, size>>)],
              ptr |-> ptr]

\* kmalloc_pool admitting a request that ends exactly at the end of the arena
kmalloc_pool_exact_fit(m, size) ==
    LET aligned_size == AlignUp(size, ALIGN_POOL)
        block == m.free_metadata_list
        ptr == kernel_heap + m.heap_offset
    IN  IF size = 0 THEN [m |-> m, ptr |-> NULL]
        ELSE IF m.heap_offset + aligned_size > KERNEL_HEAP_SIZE
             THEN [m |-> Emit(m, <<"kmalloc_failed", "arena">>), ptr |-> NULL]
        ELSE IF block = NULL
             THEN [m |-> Emit(m, <<"kmalloc_failed", "metadata">>), ptr |-> NULL]
        ELSE [m |-> [m EXCEPT
                        !.free_metadata_list = m.metadata_pool[block].next,
                        !.heap_offset = @ + aligned_size,
                        !.metadata_pool[block] =
                            [ptr |-> ptr, size |-> aligned_size,
                             allocation_id |-> m.allocation_counter,
                             is_garbage |-> FALSE, next |-> m.allocation_list],
                        !.allocation_counter = @ + 1,
                        !.allocation_list = block,
                        !.returned = Append(@, <<ptr, size>>)],
              ptr |-> ptr]

\* rev A: the record comes from the pre-allocated pool.
kmalloc_pool(m, size) ==
    LET aligned_size == AlignUp(size, ALIGN_POOL)
        block == m.free_metadata_list
        ptr == kernel_heap + m.heap_offset
    IN  IF size = 0 THEN [m |-> m, ptr |-> NULL]
        ELSE IF m.heap_offset + aligned_size >= KERNEL_HEAP_SIZE
             THEN [m |-> Emit(m, <<"kmalloc_failed", "arena">>), ptr |-> NULL]
        ELSE IF block = NULL
             THEN [m |-> Emit(m, <<"kmalloc_failed", "metadata">>), ptr |-> NULL]
        ELSE [m |-> [m EXCEPT
                        !.free_metadata_list = m.metadata_pool[block].next,
                        !.heap_offset = @ + aligned_size,
                        !.metadata_pool[block] =
                            [ptr |-> ptr, size |-> aligned_size,
                             allocation_id |-> m.allocation_counter,
                             is_garbage |-> FALSE, next |-> m.allocation_list],
                        !.allocation_counter = @ + 1,
                        !.allocation_list = block,
                        !.returned = Append(@, <<ptr, size>>)],
              ptr |-> ptr]

\* the tail of kmalloc in rev C: the record, when there is one, is filled in
\* and linked; the pointer is returned either way
track_allocation(r, ptr, size) ==
    IF r.ptr = NULL
    THEN [m |-> [r.m EXCEPT !.returned = Append(@, <<ptr, size>>)], ptr |-> ptr]
    ELSE [m |-> [r.m EXCEPT
                    !.metadata_pool = SetBlock(@, r.ptr,
                        [ptr |-> ptr, size |-> size,
                         allocation_id |-> r.m.allocation_counter,
                         is_garbage |-> FALSE, next |-> r.m.allocation_list]),
                    !.allocation_counter = @ + 1,
                    !.allocation_list = r.ptr,
                    !.returned = Append(@, <<ptr, size>>)],
          ptr |-> ptr]

RECURSIVE kmalloc_rec(_, _)
\* rev C (and part_001): the record is obtained by calling kmalloc again.
kmalloc_rec(m, size) ==
    IF m.heap_offset + size >= KERNEL_HEAP_SIZE
    THEN [m |-> Emit(m, <<"kmalloc_failed", "arena">>), ptr |-> NULL]
    ELSE track_allocation(
             kmalloc_rec([m EXCEPT !.heap_offset = @ + AlignUp(size, ALIGN_REC)],
                         MEM_BLOCK_BYTES),
             kernel_heap + m.heap_offset, size)

\* src/holographic_kernel.c: no record at all
kmalloc_bump(m, size) ==
    IF m.heap_offset + size >= KERNEL_HEAP_SIZE THEN [m |-> m, ptr |-> NULL]
    ELSE [m |-> [m EXCEPT !.heap_offset = @ + AlignUp(size, ALIGN_REC),
                          !.returned = Append(@, <<kernel_heap + m.heap_offset, size>>)],
          ptr |-> kernel_heap + m.heap_offset]

kmalloc(m, size) ==
    CASE m.rev = "A" -> kmalloc_pool(m, size)
      [] m.rev = "C" -> kmalloc_rec(m, size)
      [] m.rev = "H" -> kmalloc_bump(m, size)

RECURSIVE find_block(_, _, _)
\* the scan of kfree: the first live record whose ptr matches, or NULL
find_block(pool, current, ptr) ==
    IF current = NULL THEN NULL
    ELSE IF pool[current].ptr = ptr THEN current
    ELSE find_block(pool, pool[current].next, ptr)

(* --------------------- vectors held in the globals ---------------------- *)
\* A HyperVector* into the globals: <<"thought", i>>, <<"mem_in", i>>,
\* <<"mem_out", i>>, <<"state", e>>, <<"task", e>>, <<"gene", g>>.
get_vec(m, ref) ==
    CASE ref[1] = "thought" -> m.collective.thought_space[ref[2]]
      [] ref[1] = "mem_in"  -> m.holo_system.memory_pool[ref[2]].input_pattern
      [] ref[1] = "mem_out" -> m.holo_system.memory_pool[ref[2]].output_pattern
      [] ref[1] = "state"   -> m.entity_pool[ref[2]].state
      [] ref[1] = "task"    -> m.entity_pool[ref[2]].task_vector
      [] ref[1] = "gene"    -> m.genes[ref[2]].pattern

set_vec(m, ref, v) ==
    CASE ref[1] = "thought" -> [m EXCEPT !.collective.thought_space[ref[2]] = v]
      [] ref[1] = "mem_in"  -> [m EXCEPT !.holo_system.memory_pool[ref[2]].input_pattern = v]
      [] ref[1] = "mem_out" -> [m EXCEPT !.holo_system.memory_pool[ref[2]].output_pattern = v]
      [] ref[1] = "state"   -> [m EXCEPT !.entity_pool[ref[2]].state = v]
      [] ref[1] = "task"    -> [m EXCEPT !.entity_pool[ref[2]].task_vector = v]
      [] ref[1] = "gene"    -> [m EXCEPT !.genes[ref[2]].pattern = v]

(* ----------------------------- hypervectors ---------------------------- *)
\* A call of one function by another is made through call, which is
\* defined once every function is.
RECURSIVE call(_, _)

create_hyper_vector(m, seed) ==
    LET r == call("kmalloc", <<m, INITIAL_DIMENSIONS * SIZEOF_FLOAT>>)
    IN  IF r.ptr = NULL
        THEN [m |-> r.m, vec |-> [ZeroVec EXCEPT !.capacity = INITIAL_DIMENSIONS]]
        ELSE [m |-> r.m,
              vec |-> [data |-> r.ptr, capacity |-> INITIAL_DIMENSIONS,
                       active_dims |-> INITIAL_DIMENSIONS,
                       hash_sig |-> hash_data(seed), valid |-> TRUE]]

copy_hyper_vector(m, src) ==
    IF ~src.valid \/ src.data = NULL THEN [m |-> m, vec |-> ZeroVec]
    ELSE LET r == call("kmalloc", <<m, src.capacity * SIZEOF_FLOAT>>)
         IN  IF r.ptr = NULL
             THEN [m |-> r.m,
                   vec |-> [ZeroVec EXCEPT !.capacity = src.capacity,
                                           !.active_dims = src.active_dims]]
             ELSE [m |-> r.m, vec |-> [src EXCEPT !.data = r.ptr, !.valid = TRUE]]


\* destroy_hyper_vector(&global): kfree runs (and may re-enter the collector)
\* before the fields are cleared; the clearing then hits whatever vector the
\* location holds by then.
destroy_hyper_vector(m, ref) ==
    LET v == get_vec(m, ref)
    IN  IF m.crashed \/ v.data = NULL THEN m
        ELSE LET m1 == call("kfree", <<m, v.data>>)
                 w == get_vec(m1, ref)
             IN  set_vec(m1, ref,
                     IF m.rev = "A"
                     THEN [w EXCEPT !.data = NULL, !.capacity = 0,
                                    !.active_dims = 0, !.valid = FALSE]
                     ELSE [w EXCEPT !.data = NULL, !.valid = FALSE])

\* destroy_hyper_vector(&local): the local is dead afterwards
destroy_local_vector(m, v) ==
    IF v.data = NULL THEN m ELSE call("kfree", <<m, v.data>>)

(* ------------------------------ collective ----------------------------- *)
Min(a, b) == IF a < b THEN a ELSE b

shift_thoughts(ts) ==
    [i \in 0..(MAX_THOUGHTS - 1) |-> IF i < MAX_THOUGHTS - 1 THEN ts[i + 1] ELSE ts[i]]

\* The floats of a buffer are not part of the state; hash_sig stands for
\* them.  The cosine of a pattern with itself is 1; two different patterns
\* are taken not to resonate (below 0.6).  In thousandths.
compute_similarity(a, b) ==
    IF ~a.valid \/ ~b.valid \/ a.data = NULL \/ b.data = NULL THEN 0
    ELSE IF Min(a.active_dims, b.active_dims) = 0 THEN 0
    ELSE IF a.hash_sig = b.hash_sig THEN 1000 ELSE 0

RECURSIVE coherence_sum(_, _, _)
\* the loop of compute_coherence over the slots below thought_count: the sum
\* of the similarities and valid_count (rev H counts every slot)
coherence_sum(m, thought, i) ==
    IF i >= m.collective.thought_count THEN [coherence |-> 0, valid_count |-> 0]
    ELSE LET r == coherence_sum(m, thought, i + 1)
             slot == m.collective.thought_space[i]
         IN  IF m.rev = "H" \/ slot.valid
             THEN [coherence |-> r.coherence + compute_similarity(thought, slot),
                   valid_count |-> r.valid_count + 1]
             ELSE r

\* in thousandths; the quotient is truncated
compute_coherence(m, thought) ==
    IF m.collective.thought_count = 0 THEN 1000
    ELSE LET r == coherence_sum(m, thought, 0)
         IN  IF r.valid_count = 0 THEN 0 ELSE r.coherence \div r.valid_count

\* the event carries the coherence the function prints
broadcast_thought(m, thought) ==
    IF m.crashed \/ ~thought.valid THEN m
    ELSE LET m1 == IF m.collective.thought_count >= MAX_THOUGHTS
                   THEN LET d == call("destroy_hyper_vector", <<m, <<"thought", 0>> >>)
                        IN  [d EXCEPT !.collective.thought_space = shift_thoughts(@),
                                      !.collective.thought_count = MAX_THOUGHTS - 1]
                   ELSE m
             c == IF m.rev = "H" THEN [m |-> m1, vec |-> thought]
                  ELSE call("copy_hyper_vector", <<m1, thought>>)
             n == c.m.collective.thought_count
             m2 == [c.m EXCEPT !.collective.thought_space[n] = [c.vec EXCEPT !.valid = TRUE],
                               !.collective.thought_count = n + 1]
             coherence == compute_coherence(m2, thought)
         IN  Emit([m2 EXCEPT !.collective.global_coherence = (@ * 9 + coherence) \div 10],
                  <<"broadcast", thought.hash_sig, coherence>>)

(* ------------------------------- kfree --------------------------------- *)
\* the record is flagged and its bytes are given back to the arena
mark_and_release(m, block) ==
    [m EXCEPT !.metadata_pool[block].is_garbage = TRUE,
              !.heap_offset = @ - m.metadata_pool[block].size]

mark_garbage(m, block) == [m EXCEPT !.metadata_pool[block].is_garbage = TRUE]

\* rev A: the pressure is tested only for a pointer that was found
kfree_pool(m, ptr) ==
    LET block == find_block(m.metadata_pool, m.allocation_list, ptr)
    IN  IF m.crashed \/ ptr = NULL THEN m
        ELSE IF block # NULL
             THEN LET m1 == Emit(mark_garbage(m, block), <<"kfree", ptr>>)
                  IN  IF get_system_memory_pressure_high(m1)
                      THEN call("perform_emergent_garbage_collection", <<m1>>)
                      ELSE m1
        ELSE Emit(m, <<"kfree_warning", ptr>>)

\* rev C, part_001: the pressure is tested after the scan, found or not
kfree_always(m, ptr) ==
    LET block == find_block(m.metadata_pool, m.allocation_list, ptr)
    IN  IF m.crashed \/ ptr = NULL THEN m
        ELSE LET m1 == IF block # NULL
                       THEN Emit(mark_garbage(m, block), <<"kfree", ptr>>)
                       ELSE Emit(m, <<"kfree_unknown", ptr>>)
             IN  IF get_system_memory_pressure_high(m1)
                 THEN call("perform_emergent_garbage_collection", <<m1>>)
                 ELSE m1

kfree(m, ptr) ==
    CASE m.rev = "A" -> kfree_pool(m, ptr)
      [] m.rev = "C" -> kfree_always(m, ptr)
      [] m.rev = "H" -> m

(* ------------------------------ collector ------------------------------ *)
\* a sweep that looks at the head of the list only
sweep_head_only(m, current, prev) ==
    IF current = NULL \/ ~m.metadata_pool[current].is_garbage THEN m
    ELSE Emit([m EXCEPT !.allocation_list = m.metadata_pool[current].next,
                        !.metadata_pool[current].next = m.free_metadata_list,
                        !.free_metadata_list = current,
                        !.gc_metadata_count = @ + 1],
              <<"sweep", m.metadata_pool[current].ptr>>)

RECURSIVE sweep_without_unlink(_, _, _)
\* a sweep that pushes a garbage record on the free list and leaves it linked
sweep_without_unlink(m, current, prev) ==
    IF current = NULL THEN m
    ELSE LET blk == m.metadata_pool[current]
         IN  IF blk.is_garbage
             THEN sweep_without_unlink(
                      Emit([m EXCEPT !.metadata_pool[current].next = m.free_metadata_list,
                                     !.free_metadata_list = current,
                                     !.gc_metadata_count = @ + 1],
                           <<"sweep", blk.ptr>>),
                      blk.next, prev)
             ELSE sweep_without_unlink(m, blk.next, current)

RECURSIVE sweep_garbage(_, _, _)
\* rev A, the loop over allocation_list: a garbage record is unlinked and
\* pushed on the free list
sweep_garbage(m, current, prev) ==
    IF current = NULL THEN m
    ELSE LET blk == m.metadata_pool[current]
         IN  IF blk.is_garbage
             THEN LET m1 == IF prev # NULL
                            THEN [m EXCEPT !.metadata_pool[prev].next = blk.next]
                            ELSE [m EXCEPT !.allocation_list = blk.next]
                      m2 == [m1 EXCEPT !.metadata_pool[current].next = m1.free_metadata_list,
                                       !.free_metadata_list = current,
                                       !.gc_metadata_count = @ + 1]
                  IN  sweep_garbage(Emit(m2, <<"sweep", blk.ptr>>), blk.next, prev)
             ELSE sweep_garbage(m, blk.next, current)

\* the head of the collector, the same text in every revision
broadcast_pressure_thought(m) ==
    LET c == call("create_hyper_vector", <<m, "SYSTEM_MEMORY_PRESSURE">>)
    IN  IF c.vec.valid
        THEN call("destroy_local_vector", <<call("broadcast_thought", <<c.m, c.vec>>), c.vec>>)
        ELSE c.m

(* ------------------------------- genome -------------------------------- *)
\* rev H stores the pattern itself, the other builds a copy of it
create_gene(m, pattern) ==
    LET r == call("kmalloc", <<m, GENE_BYTES>>)
        c == IF m.rev = "H" THEN [m |-> r.m, vec |-> pattern]
             ELSE call("copy_hyper_vector", <<r.m, pattern>>)
    IN  IF r.ptr = NULL THEN [m |-> r.m, gene |-> NULL]
        ELSE [m |-> [c.m EXCEPT !.genes = SetBlock(@, r.ptr,
                                    [pattern |-> c.vec, next |-> NULL, fitness |-> 0])],
              gene |-> r.ptr]

RECURSIVE destroy_genome(_, _)
\* the freed Gene is still read through current->next: its bytes are never
\* handed out again
destroy_genome(m, current) ==
    IF m.crashed \/ current = NULL THEN m
    ELSE LET next == m.genes[current].next
             m1 == call("destroy_hyper_vector", <<m, <<"gene", current>> >>)
         IN  destroy_genome(call("kfree", <<m1, current>>), next)

RECURSIVE find_weakest(_, _, _, _, _)
\* the scan for the weakest gene: the first of the least fitness, with its
\* predecessor
find_weakest(gs, current, prev, weakest_gene, weakest_prev) ==
    IF current = NULL THEN [gene |-> weakest_gene, prev |-> weakest_prev]
    ELSE IF weakest_gene = NULL \/ gs[current].fitness < gs[weakest_gene].fitness
         THEN find_weakest(gs, gs[current].next, current, current, prev)
         ELSE find_weakest(gs, gs[current].next, current, weakest_gene, weakest_prev)

\* the guard without its lower bound
may_sacrifice_any_gene(e) == e.gene_count > 0

\* both evictions are guarded by gene_count > 1
may_sacrifice_gene(e) == e.gene_count > 1

(* -------------------- collector of rev C and part_001 ------------------- *)
\* (uint32_t)(sacrifice_probability * 1000) with confidence in thousandths;
\* fitness_score stays small in the calls modelled here, so the product is
\* never negative
sacrifice_threshold(e) ==
    (5000 + 20 * (1000 - e.confidence) + 3 * e.age - 40 * e.fitness_score) \div 100

random_roll(m, e) == (m.holo_system.global_timestamp * e.id) % 1000

deactivate_entity(m, i) ==
    LET m1 == call("destroy_genome", <<m, m.entity_pool[i].genome>>)
        m2 == call("destroy_hyper_vector", <<m1, <<"state", i>> >>)
        m3 == call("destroy_hyper_vector", <<m2, <<"task", i>> >>)
    IN  Emit([m3 EXCEPT !.entity_pool[i].genome = NULL,
                        !.entity_pool[i].gene_count = 0,
                        !.entity_pool[i].is_active = FALSE],
             <<"deactivate", i>>)

sacrifice_weakest_gene(m, i) ==
    LET e == m.entity_pool[i]
        w == find_weakest(m.genes, e.genome, NULL, NULL, NULL)
    IN  IF w.gene # NULL /\ may_sacrifice_gene(e)
        THEN LET m1 == IF w.prev # NULL
                       THEN [m EXCEPT !.genes[w.prev].next = m.genes[w.gene].next]
                       ELSE [m EXCEPT !.entity_pool[i].genome = m.genes[w.gene].next]
                 m2 == call("destroy_hyper_vector", <<m1, <<"gene", w.gene>> >>)
                 m3 == call("kfree", <<m2, w.gene>>)
             IN  Emit([m3 EXCEPT !.entity_pool[i].gene_count = @ - 1],
                      <<"evict", i, m3.entity_pool[i].gene_count>>)
        ELSE Emit(m, <<"spared", i, e.gene_count>>)

RECURSIVE sacrifice_entities(_, _)
sacrifice_entities(m, i) ==
    IF m.crashed \/ i >= m.active_entity_count THEN m
    ELSE LET e == m.entity_pool[i]
         IN  IF ~e.is_active THEN sacrifice_entities(m, i + 1)
             ELSE IF random_roll(m, e) < sacrifice_threshold(e)
                  THEN sacrifice_entities(deactivate_entity(m, i), i + 1)
                  ELSE sacrifice_entities(sacrifice_weakest_gene(m, i), i + 1)

perform_emergent_garbage_collection(m) ==
    IF m.crashed THEN m
    ELSE IF m.depth >= MaxDepth THEN [m EXCEPT !.crashed = TRUE]
    ELSE LET m0 == Emit([m EXCEPT !.depth = @ + 1], <<"gc_enter", m.depth + 1>>)
             m1 == broadcast_pressure_thought(m0)
             m2 == IF m.rev = "A" THEN sweep_garbage(m1, m1.allocation_list, NULL)
                   ELSE sacrifice_entities(m1, 0)
         IN  Emit([m2 EXCEPT !.depth = @ - 1], <<"gc_exit", m.depth + 1>>)

(* ------------------------------ entities ------------------------------- *)
RECURSIVE init_entity_loop(_, _, _)
init_entity_loop(m, base_pattern, i) ==
    IF ~(i < INITIAL_ENTITIES /\ i < MAX_ENTITIES) THEN m
    ELSE LET idx == m.active_entity_count
             s == call("create_hyper_vector", <<m, "TRAIT_DORMANT">>)
             g == call("create_gene", <<s.m, base_pattern>>)
         IN  init_entity_loop(
                 [g.m EXCEPT !.entity_pool[idx] =
                                 [@ EXCEPT !.id = idx, !.state = s.vec, !.genome = g.gene,
                                           !.gene_count = 1, !.age = 0, !.is_active = TRUE,
                                           !.confidence = 500, !.mutation_rate = 50,
                                           !.domain_name = "adaptive"],
                             !.active_entity_count = idx + 1],
                 base_pattern, i + 1)

\* rev A and rev C
initialize_entities_from_pattern(m) ==
    LET c == call("create_hyper_vector", <<m, "GENOME_ADAPTIVE">>)
    IN  call("destroy_local_vector", <<init_entity_loop(c.m, c.vec, 0), c.vec>>)

\* get_system_memory_pressure() > 0.7f
pressure_above_70(m) == 10 * m.heap_offset > 7 * KERNEL_HEAP_SIZE

\* rev A, update_entities: the proactive sacrifice frees the weakest gene
\* and leaves it in the chain
proactive_sacrifice(m, i) ==
    LET e == m.entity_pool[i]
        w == find_weakest(m.genes, e.genome, NULL, NULL, NULL)
    IN  IF e.age % SACRIFICE_PERIOD = 0 /\ may_sacrifice_gene(e) /\ pressure_above_70(m)
        THEN IF w.gene # NULL
             THEN LET m1 == call("destroy_hyper_vector", <<m, <<"gene", w.gene>> >>)
                      m2 == call("kfree", <<m1, w.gene>>)
                  IN  Emit([m2 EXCEPT !.entity_pool[i].gene_count = @ - 1],
                           <<"evict", i, m2.entity_pool[i].gene_count>>)
             ELSE m
        ELSE IF e.age % SACRIFICE_PERIOD = 0 /\ pressure_above_70(m)
             THEN Emit(m, <<"spared", i, e.gene_count>>)
             ELSE m

RECURSIVE update_entity_loop(_, _, _)
\* the first loop of update_entities; nx is next_active / next_state
update_entity_loop(m, i, nx) ==
    IF m.crashed \/ i >= m.active_entity_count \/ i >= MAX_ENTITIES
    THEN [m |-> m, nx |-> nx]
    ELSE LET e == m.entity_pool[i]
             c == call("copy_hyper_vector", <<m, e.state>>)
             m1 == [c.m EXCEPT !.entity_pool[i].age = @ + 1]
         IN  update_entity_loop(proactive_sacrifice(m1, i), i + 1,
                 [nx EXCEPT ![i] = [active |-> e.is_active, state |-> c.vec]])

update_entities_copy(m) ==
    LET r == update_entity_loop(m, 0,
                 [i \in 0..(MAX_ENTITIES - 1) |-> [active |-> FALSE, state |-> ZeroVec]])
        n == IF r.m.active_entity_count < MAX_ENTITIES
             THEN r.m.active_entity_count ELSE MAX_ENTITIES
    IN  [r.m EXCEPT !.entity_pool =
            [i \in DOMAIN @ |->
                IF i < n THEN [@[i] EXCEPT !.is_active = r.nx[i].active,
                                           !.state = r.nx[i].state]
                ELSE @[i]]]

(* ------------------------- associative memory -------------------------- *)
shift_entries(pool) ==
    [i \in 0..(MAX_MEMORY_ENTRIES - 1) |->
        IF i < MAX_MEMORY_ENTRIES - 1 THEN pool[i + 1] ELSE pool[i]]

\* rev C stores deep copies, src/holographic_kernel.c the vectors themselves
encode_holographic_memory(m, input, output) ==
    LET m1 == IF m.holo_system.memory_count >= MAX_MEMORY_ENTRIES
              THEN LET d == call("destroy_hyper_vector",
                              <<call("destroy_hyper_vector", <<m, <<"mem_in", 0>> >>),
                                <<"mem_out", 0>> >>)
                   IN  [d EXCEPT !.holo_system.memory_pool = shift_entries(@),
                                 !.holo_system.memory_count = MAX_MEMORY_ENTRIES - 1]
              ELSE m
        ci == IF m.rev = "H" THEN [m |-> m1, vec |-> input]
              ELSE call("copy_hyper_vector", <<m1, input>>)
        co == IF m.rev = "H" THEN [m |-> ci.m, vec |-> output]
              ELSE call("copy_hyper_vector", <<ci.m, output>>)
        n == co.m.holo_system.memory_count
    IN  [co.m EXCEPT !.holo_system.memory_pool[n] =
                         [input_pattern |-> ci.vec, output_pattern |-> co.vec,
                          timestamp |-> co.m.holo_system.global_timestamp,
                          valid |-> TRUE],
                     !.holo_system.global_timestamp = (@ + 1) % TICK_MODULUS,
                     !.holo_system.memory_count = n + 1]

RECURSIVE retrieve_scan(_, _, _)
retrieve_scan(hs, hash, i) ==
    IF i < 0 THEN NULL
    ELSE IF hs.memory_pool[i].valid /\ hs.memory_pool[i].input_pattern.hash_sig = hash
         THEN i + 1
         ELSE retrieve_scan(hs, hash, i - 1)

RECURSIVE retrieve_scan_up(_, _, _)
retrieve_scan_up(hs, hash, i) ==
    IF i >= hs.memory_count THEN NULL
    ELSE IF hs.memory_pool[i].valid /\ hs.memory_pool[i].input_pattern.hash_sig = hash
         THEN i + 1
         ELSE retrieve_scan_up(hs, hash, i + 1)

\* the lookup taken oldest-first
retrieve_oldest_first(hs, hash) == retrieve_scan_up(hs, hash, 0)

\* &memory_pool[i].output_pattern, written as slot i + 1, or NULL
retrieve_holographic_memory(hs, hash) == retrieve_scan(hs, hash, hs.memory_count - 1)

(* ---------------------------- kernel patches --------------------------- *)
\* the bytes the copy loop of apply_kernel_patch writes: it stops at
\* total_size or at the end of the replacement's buffer
patch_write_size(p) ==
    Min(p.replacement.active_dims * SIZEOF_FLOAT, p.replacement.capacity * SIZEOF_FLOAT)

\* rev C tests the address against the arena
address_in_heap(address) ==
    ~(address < kernel_heap \/ address >= kernel_heap + KERNEL_HEAP_SIZE)

\* the copy loop and the flag
write_patch(m) ==
    Emit([m EXCEPT !.written = IF patch_write_size(m.patch) > 0
                                THEN Append(@, <<m.patch.address, patch_write_size(m.patch)>>)
                                ELSE @,
                   !.patch.applied = TRUE],
         <<"patch_applied", m.patch.address>>)

\* the copy loop without the test of the flag
apply_unguarded(m) ==
    IF m.patch.replacement.active_dims * SIZEOF_FLOAT > PATCH_CEILING
    THEN Emit(m, <<"patch_too_large">>)
    ELSE IF m.rev = "C" /\ ~address_in_heap(m.patch.address)
    THEN Emit(m, <<"patch_outside_heap">>)
    ELSE write_patch(m)

\* apply_kernel_patch(&patch), patch being the client's.  The bytes of the
\* arena are not part of the state: written records the range the loop
\* overwrites.
apply_kernel_patch(m) ==
    IF m.patch.applied THEN m
    ELSE IF m.patch.replacement.active_dims * SIZEOF_FLOAT > PATCH_CEILING
    THEN Emit(m, <<"patch_too_large">>)
    ELSE IF m.rev = "C" /\ ~address_in_heap(m.patch.address)
    THEN Emit(m, <<"patch_outside_heap">>)
    ELSE write_patch(m)

\* propose_kernel_patch(entity, &old_pattern, &new_pattern, address), the
\* three pointers not NULL.  The KernelPatch is a local: rev C fills it with
\* copies, which it never frees; src/holographic_kernel.c with the vectors
\* themselves.
propose_kernel_patch(m, entity, old_pattern, new_pattern, address) ==
    LET p == IF m.rev = "H" THEN [m |-> m, vec |-> old_pattern]
             ELSE call("copy_hyper_vector", <<m, old_pattern>>)
        r == IF m.rev = "H" THEN [m |-> p.m, vec |-> new_pattern]
             ELSE call("copy_hyper_vector", <<p.m, new_pattern>>)
        m1 == call("encode_holographic_memory", <<r.m, p.vec, r.vec>>)
    IN  Emit(call("broadcast_thought", <<m1, r.vec>>), <<"propose", entity, address>>)

(* ------------------ entities of rev C: spawn and tick ------------------ *)
\* &entity_pool[e]: the pool is a global outside the arena
entity_ptr(e) == kernel_heap + KERNEL_HEAP_SIZE + 16 + e

\* (uint32_t)&entity->is_active, the address update_entities proposes
flag_address(e) == entity_ptr(e)

add_gene_to_entity(m, e, gene) ==
    IF gene = NULL \/ m.entity_pool[e].gene_count >= MAX_GENES_PER_ENTITY THEN m
    ELSE [m EXCEPT !.genes[gene].next = m.entity_pool[e].genome,
                   !.entity_pool[e].genome = gene,
                   !.entity_pool[e].gene_count = @ + 1]

\* spawn_entity without the test of the pool
spawn_unchecked(m) == m.active_entity_count >= MAX_ENTITIES + 1

pool_is_full(m) == m.active_entity_count >= MAX_ENTITIES

\* spawn_entity(): in rev C a failed allocation ends in while(1); rev H
\* goes on with what it has
spawn_entity(m) ==
    IF pool_is_full(m) THEN [m |-> Emit(m, <<"spawn_full">>), entity |-> NULL]
    ELSE LET idx == m.active_entity_count
             m0 == [m EXCEPT !.entity_pool[idx] =
                        [@ EXCEPT !.id = idx, !.age = 0, !.is_active = TRUE,
                                  !.fitness_score = 0, !.gene_count = 0,
                                  !.genome = NULL, !.mutation_rate = 100]]
             s == call("create_hyper_vector", <<m0, "TRAIT_EMERGENT">>)
             m1 == [s.m EXCEPT !.entity_pool[idx].state = s.vec]
             g == call("create_gene", <<m1, s.vec>>)
         IN  IF m.rev = "C" /\ ~s.vec.valid
             THEN [m |-> [m1 EXCEPT !.crashed = TRUE], entity |-> NULL]
             ELSE IF m.rev = "C" /\ g.gene = NULL
             THEN [m |-> [g.m EXCEPT !.crashed = TRUE], entity |-> NULL]
             ELSE [m |-> Emit([add_gene_to_entity(g.m, idx, g.gene) EXCEPT
                                  !.entity_pool[idx].confidence = 500,
                                  !.entity_pool[idx].domain_name = "spawned",
                                  !.active_entity_count = idx + 1],
                              <<"spawned", idx>>),
                   entity |-> entity_ptr(idx)]

\* get_system_memory_pressure() > 0.8f
pressure_above_80(m) == 5 * m.heap_offset > 4 * KERNEL_HEAP_SIZE

\* can_afford_vector_copy: needed < free_space * 0.8f
can_afford_vector_copy(m, vector_count) ==
    5 * (vector_count * MAX_DIMENSIONS * SIZEOF_FLOAT) < 4 * (KERNEL_HEAP_SIZE - m.heap_offset)

\* the average of a pattern with itself is the pattern
merge_hyper_vectors(dest, src) ==
    IF ~dest.valid \/ ~src.valid THEN dest
    ELSE [dest EXCEPT !.hash_sig = IF @ = src.hash_sig THEN @ ELSE @ + src.hash_sig]

RECURSIVE listen_to_collective(_, _, _)
\* the loop over the thoughts: a resonating thought raises confidence and
\* fitness_score and is merged into the state
listen_to_collective(m, i, t) ==
    IF t >= m.collective.thought_count THEN m
    ELSE LET thought == m.collective.thought_space[t]
             similarity == compute_similarity(m.entity_pool[i].state, thought)
         IN  listen_to_collective(
                 IF similarity > 600
                 THEN [m EXCEPT !.entity_pool[i].confidence = @ + (50 * similarity) \div 1000,
                                !.entity_pool[i].fitness_score = @ + 2,
                                !.entity_pool[i].state = merge_hyper_vectors(@, thought)]
                 ELSE m,
                 i, t + 1)

\* the self-modification trigger; rev H does not test the two patterns
self_modification(m, i, nx) ==
    LET e == m.entity_pool[i]
        b == call("create_hyper_vector", <<m, "ENTITY_ACTIVE_FLAG">>)
        a == call("create_hyper_vector", <<b.m, "ENTITY_DORMANT_FLAG">>)
    IN  IF e.confidence > 800 /\ e.fitness_score > 50 /\ e.mutation_rate > 100
        THEN IF m.rev = "H" \/ (b.vec.valid /\ a.vec.valid)
             THEN [m |-> [call("propose_kernel_patch",
                               <<a.m, i, b.vec, a.vec, flag_address(i)>>)
                             EXCEPT !.entity_pool[i].confidence = 500,
                                    !.entity_pool[i].fitness_score = 0],
                   nx |-> nx]
             ELSE [m |-> a.m, nx |-> nx]
        ELSE [m |-> m, nx |-> nx]

\* neighbour-based activation and sleep, read from the pool as it is when
\* entity i is evaluated; rev H does not test the new state
neighbour_rule(m, i, nx) ==
    LET e == m.entity_pool[i]
        n == m.active_entity_count
        prev_idx == IF i = 0 THEN n - 1 ELSE i - 1
        next_idx == IF i = n - 1 THEN 0 ELSE i + 1
        neighbor_active == (IF m.entity_pool[prev_idx].is_active THEN 1 ELSE 0)
                           + (IF m.entity_pool[next_idx].is_active THEN 1 ELSE 0)
        act == call("create_hyper_vector", <<m, "TRAIT_ACTIVE">>)
        dor == call("create_hyper_vector", <<m, "TRAIT_DORMANT">>)
    IN  IF ~e.is_active /\ neighbor_active > 0
        THEN IF m.rev = "C" /\ ~act.vec.valid
             THEN [m |-> act.m, nx |-> [nx EXCEPT ![i].active = TRUE, ![i].state = act.vec]]
             ELSE self_modification(
                      call("broadcast_thought",
                           <<[act.m EXCEPT !.entity_pool[i].fitness_score = @ + 5], act.vec>>),
                      i,
                      [nx EXCEPT ![i].active = TRUE, ![i].state = act.vec,
                                 ![i].domain = "reactor"])
        ELSE IF e.is_active /\ neighbor_active = 0
        THEN IF m.rev = "C" /\ ~dor.vec.valid
             THEN [m |-> dor.m, nx |-> [nx EXCEPT ![i].active = FALSE, ![i].state = dor.vec]]
             ELSE self_modification(dor.m, i,
                      [nx EXCEPT ![i].active = FALSE, ![i].state = dor.vec,
                                 ![i].domain = "sleeper"])
        ELSE self_modification(m, i, nx)

\* the snapshot of is_active is left out: next_active stays as memset left it
snapshot_omitted(e) == FALSE

\* the tick wakes every entity
snapshot_woken(e) == TRUE

\* next_active[i] = entity->is_active
snapshot_active(e) == e.is_active

\* the skip counts the tick twice
age_twice(m, i, nx) ==
    [m |-> [m EXCEPT !.entity_pool[i].age = @ + 2],
     nx |-> [nx EXCEPT ![i].state = m.entity_pool[i].state,
                       ![i].task = m.entity_pool[i].task_vector]]

\* the carry-forward without entity->age++
carry_without_age(m, i, nx) ==
    [m |-> m,
     nx |-> [nx EXCEPT ![i].state = m.entity_pool[i].state,
                       ![i].task = m.entity_pool[i].task_vector]]

\* the shallow carry-forward of a skipped entity
shallow_carry(m, i, nx) ==
    [m |-> [m EXCEPT !.entity_pool[i].age = @ + 1],
     nx |-> [nx EXCEPT ![i].state = m.entity_pool[i].state,
                       ![i].task = m.entity_pool[i].task_vector]]

\* the deep-copy path; a failed copy reverts to the shallow state
deep_copy_path(m, i, nx) ==
    LET e == m.entity_pool[i]
        cs == call("copy_hyper_vector", <<m, e.state>>)
        ct == call("copy_hyper_vector", <<cs.m, e.task_vector>>)
        ok == cs.vec.valid /\ ct.vec.valid
    IN  neighbour_rule(
            listen_to_collective([ct.m EXCEPT !.entity_pool[i].age = @ + 1], i, 0), i,
            [nx EXCEPT ![i].state = IF ok THEN cs.vec ELSE e.state,
                       ![i].task = IF ok THEN ct.vec ELSE e.task_vector])

\* rev H: no copy and no skip; next_state is the entity's state as it was
\* before the thoughts were merged into it
update_in_place(m, i, nx) ==
    LET e == m.entity_pool[i]
    IN  neighbour_rule(
            listen_to_collective([m EXCEPT !.entity_pool[i].age = @ + 1], i, 0), i,
            [nx EXCEPT ![i].state = e.state, ![i].task = e.task_vector])

\* does entity i skip its update: the voluntary skip, or the forced one
\* update_entities without its skip tests
never_skips(m, i, pressure_high) == FALSE

skips_update(m, i, pressure_high) ==
    \/ pressure_high /\ m.entity_pool[i].fitness_score < 30
    \/ ~can_afford_vector_copy(m, 2)

RECURSIVE evaluate_entities(_, _, _, _)
\* the first loop of update_entities (rev C, rev H)
evaluate_entities(m, i, nx, pressure_high) ==
    IF m.crashed \/ i >= m.active_entity_count THEN [m |-> m, nx |-> nx]
    ELSE LET e == m.entity_pool[i]
             n0 == [nx EXCEPT ![i].active = snapshot_active(e), ![i].domain = e.domain_name]
             r == IF m.rev = "H" THEN update_in_place(m, i, n0)
                  ELSE IF skips_update(m, i, pressure_high) THEN shallow_carry(m, i, n0)
                  ELSE deep_copy_path(m, i, n0)
         IN  evaluate_entities(r.m, i + 1, r.nx, pressure_high)

RECURSIVE commit_entities(_, _, _)
\* the second loop: in rev C a vector is destroyed only if another one
\* replaces it; rev H destroys nothing and leaves task_vector alone
commit_entities(m, i, nx) ==
    IF m.crashed \/ i >= m.active_entity_count THEN m
    ELSE LET m1 == [m EXCEPT !.entity_pool[i].is_active = nx[i].active]
             m2 == IF m.rev = "C" /\ nx[i].state.valid
                      /\ nx[i].state.data # m1.entity_pool[i].state.data
                   THEN call("destroy_hyper_vector", <<m1, <<"state", i>> >>)
                   ELSE m1
             m3 == [m2 EXCEPT !.entity_pool[i].state = nx[i].state,
                              !.entity_pool[i].domain_name = nx[i].domain]
             m4 == IF m.rev = "C" /\ nx[i].task.valid
                      /\ nx[i].task.data # m3.entity_pool[i].task_vector.data
                   THEN call("destroy_hyper_vector", <<m3, <<"task", i>> >>)
                   ELSE m3
         IN  commit_entities(
                 IF m.rev = "C" THEN [m4 EXCEPT !.entity_pool[i].task_vector = nx[i].task]
                 ELSE m4,
                 i + 1, nx)

\* update_entities of rev C and of rev H
update_entities_skip(m) ==
    LET r == evaluate_entities(m, 0,
                 [i \in 0..(MAX_ENTITIES - 1) |->
                     [active |-> FALSE, state |-> ZeroVec, domain |-> "", task |-> ZeroVec]],
                 pressure_above_80(m))
    IN  commit_entities(r.m, 0, r.nx)

update_entities(m) ==
    IF m.rev = "A" THEN update_entities_copy(m) ELSE update_entities_skip(m)

(* ----------------------------- kmain's boot ---------------------------- *)
\* load_initial_genome_vocabulary, scaled from 14 strings: the strings the
\* entities' states and genomes are looked up by
Vocab == <<"TRAIT_DORMANT", "GENOME_ADAPTIVE">>

\* load_initial_genome_vocabulary as src/holographic_kernel.c has it: no halt
load_without_halt(m, seed) ==
    LET c == call("create_hyper_vector", <<m, seed>>)
    IN  call("broadcast_thought",
             <<call("encode_holographic_memory", <<c.m, c.vec, c.vec>>), c.vec>>)

\* one iteration of the loop of load_initial_genome_vocabulary: rev C halts
\* in while(1) when the pattern is not valid
load_vocabulary_pattern(m, seed) ==
    LET c == call("create_hyper_vector", <<m, seed>>)
    IN  IF m.rev = "C" /\ ~c.vec.valid THEN [c.m EXCEPT !.crashed = TRUE]
        ELSE call("broadcast_thought",
                  <<call("encode_holographic_memory", <<c.m, c.vec, c.vec>>), c.vec>>)

RECURSIVE init_entity_loop_genomes(_, _, _, _)
\* rev H: the loop of initialize_emergent_entities; genome_ptr is a slot of
\* the memory (written i + 1) or, for NULL, the local pattern
init_entity_loop_genomes(m, rule, genome_ptr, i) ==
    IF ~(i < INITIAL_ENTITIES) \/ m.active_entity_count >= MAX_ENTITIES THEN m
    ELSE LET idx == m.active_entity_count
             m0 == [m EXCEPT !.entity_pool[idx] =
                        [@ EXCEPT !.id = idx, !.age = 0, !.is_active = TRUE,
                                  !.gene_count = 0, !.genome = NULL]]
             s == call("create_hyper_vector", <<m0, "TRAIT_DORMANT">>)
             m1 == [s.m EXCEPT !.entity_pool[idx].state = s.vec]
             base == call("create_gene",
                          <<m1, IF genome_ptr = NULL THEN rule
                                ELSE m1.holo_system.memory_pool[genome_ptr - 1].output_pattern>>)
             soc == call("create_hyper_vector", <<base.m, "GENOME_SOCIAL">>)
             social == call("create_gene", <<soc.m, soc.vec>>)
             m2 == add_gene_to_entity(add_gene_to_entity(social.m, idx, base.gene),
                                      idx, social.gene)
         IN  init_entity_loop_genomes(
                 [m2 EXCEPT !.entity_pool[idx].confidence = 500,
                            !.entity_pool[idx].fitness_score = 0,
                            !.entity_pool[idx].mutation_rate = 50,
                            !.entity_pool[idx].domain_name = "adaptive",
                            !.active_entity_count = idx + 1],
                 rule, genome_ptr, i + 1)

\* rev H: initialize_emergent_entities
initialize_entities_with_genomes(m) ==
    LET c == call("create_hyper_vector", <<m, "GENOME_ADAPTIVE">>)
        found == retrieve_holographic_memory(c.m.holo_system, c.vec.hash_sig)
        m1 == IF found = NULL
              THEN call("encode_holographic_memory", <<c.m, c.vec, c.vec>>)
              ELSE c.m
    IN  init_entity_loop_genomes(m1, c.vec, found, 0)

RECURSIVE assign_task_loop(_, _, _)
\* rev H, kmain: one path vector is stored in the first two entities
assign_task_loop(m, path_vector, i) ==
    IF ~(i < m.active_entity_count /\ i < 2) THEN m
    ELSE assign_task_loop([m EXCEPT !.entity_pool[i].task_vector = path_vector,
                                    !.entity_pool[i].mutation_rate = 100],
                          path_vector, i + 1)

assign_tasks(m) ==
    LET c == call("create_hyper_vector", <<m, "network_io_path">>)
    IN  assign_task_loop(c.m, c.vec, 0)

initialize_emergent_entities(m) ==
    IF m.rev = "H" THEN initialize_entities_with_genomes(m)
    ELSE initialize_entities_from_pattern(m)

(* ------------------------------- calls --------------------------------- *)
\* what a call gives back once the machine has stopped: nothing runs
halted(f, m) ==
    CASE f = "kmalloc" -> [m |-> m, ptr |-> NULL]
      [] f \in {"create_hyper_vector", "copy_hyper_vector"} -> [m |-> m, vec |-> ZeroVec]
      [] f = "create_gene" -> [m |-> m, gene |-> NULL]
      [] f = "spawn_entity" -> [m |-> m, entity |-> NULL]
      [] OTHER -> m

\* the function named f applied to the arguments a, the first of which is
\* the machine
call(f, a) ==
    IF a[1].crashed THEN halted(f, a[1])
    ELSE
    CASE f = "kmalloc" -> kmalloc(a[1], a[2])
      [] f = "kfree" -> kfree(a[1], a[2])
      [] f = "create_hyper_vector" -> create_hyper_vector(a[1], a[2])
      [] f = "copy_hyper_vector" -> copy_hyper_vector(a[1], a[2])
      [] f = "destroy_hyper_vector" -> destroy_hyper_vector(a[1], a[2])
      [] f = "destroy_local_vector" -> destroy_local_vector(a[1], a[2])
      [] f = "broadcast_thought" -> broadcast_thought(a[1], a[2])
      [] f = "perform_emergent_garbage_collection" ->
             perform_emergent_garbage_collection(a[1])
      [] f = "create_gene" -> create_gene(a[1], a[2])
      [] f = "destroy_genome" -> destroy_genome(a[1], a[2])
      [] f = "initialize_emergent_entities" -> initialize_emergent_entities(a[1])
      [] f = "update_entities" -> update_entities(a[1])
      [] f = "apply_kernel_patch" -> apply_kernel_patch(a[1])
      [] f = "spawn_entity" -> spawn_entity(a[1])
      [] f = "propose_kernel_patch" ->
             propose_kernel_patch(a[1], a[2], a[3], a[4], a[5])
      [] f = "encode_holographic_memory" -> encode_holographic_memory(a[1], a[2], a[3])

(* ------------------- the fill loop of create_hyper_vector --------------- *)
\* 0x7fffffff
M31 == 2147483647

\* (x + y) & 0x7fffffff for x, y below 2^31, no intermediate above M31
add31(x, y) == IF x > M31 - y THEN x - (M31 - y) - 1 ELSE x + y

\* (a * c) & 0x7fffffff for c below 2^8, a taken in its 16-bit halves
mul_byte(a, c) == add31((((a \div 65536) * c) % 32768) * 65536, (a % 65536) * c)

RECURSIVE mul31(_, _)
\* (a * b) & 0x7fffffff, one byte of b at a time
mul31(a, b) ==
    IF b = 0 THEN 0
    ELSE add31((mul31(a, b \div 256) % 8388608) * 256, mul_byte(a, b % 256))

\* seed = (seed * 1103515245 + 12345) & 0x7fffffff; the bits of the uint32_t
\* product above bit 30 are masked away, so seed is kept below 2^31 throughout
advance_seed(seed) == add31(mul31(seed, 1103515245), 12345)

\* a uint32_t as its two 16-bit halves
Zero32 == [hi |-> 0, lo |-> 0]

\* (seed % 2000) - 1000: seed is a uint32_t, so 1000 is converted to unsigned
\* and the difference is taken modulo 2^32
numerator32(seed) ==
    LET r == seed % 2000
    IN  IF r >= 1000 THEN [hi |-> 0, lo |-> r - 1000] ELSE [hi |-> 65535, lo |-> 65536 + r - 1000]

\* hash_data(input, size) & 0x7fffffff for the strings the kernel passes to
\* create_hyper_vector (FNV-1a over the string and its terminator)
SeedOf ==
    [ACTION_PRODUCE |-> 852755044, ACTION_CONSUME |-> 1072331490,
     ACTION_SHARE |-> 439094321, ACTION_ACTIVATE |-> 1151422707,
     ACTION_DEACTIVATE |-> 1208706210, ACTION_SPAWN |-> 1903088829,
     TRAIT_GENERIC |-> 1182355299, TRAIT_ACTIVE |-> 1456942762,
     TRAIT_DORMANT |-> 1000704419, SENSOR_NEIGHBOR_ACTIVE |-> 71016655,
     SENSOR_MEMORY_MATCH |-> 1671862595, GENOME_SIMPLE_RULE_1 |-> 1322807006,
     GENOME_ADAPTIVE |-> 820152661, GENOME_SOCIAL |-> 1259533658,
     SYSTEM_MEMORY_PRESSURE |-> 1971597212, TRAIT_EMERGENT |-> 1381318521,
     ENTITY_ACTIVE_FLAG |-> 159720268, ENTITY_DORMANT_FLAG |-> 1733664565,
     network_io_path |-> 1694749852]

\* no vector is being filled
NoFill == [input |-> "", seed |-> 0, i |-> 0, populated |-> FALSE, value |-> Zero32]

\* one iteration of the loop: data[i] keeps its 0 of memset unless seed % 10
\* is 0; value is the numerator of data[i], in thousandths
fill_dimension(g) ==
    LET seed == advance_seed(g.seed)
    IN  [g EXCEPT !.seed = seed, !.i = @ + 1,
                  !.populated = (seed % 10 = 0),
                  !.value = IF seed % 10 = 0 THEN numerator32(seed) ELSE Zero32]

(* ------------------------------- the run ------------------------------- *)
\* a pointer into the arena that kmalloc never returns
WILD_PTR == kernel_heap + 1

\* the sizes the client asks for
KmallocSizes == {0, 3, 8, 32, 48}

\* the client's replacement buffer, outside the arena
CLIENT_BUFFER == kernel_heap + KERNEL_HEAP_SIZE + 8

\* the target addresses: below the arena, its first byte, its last byte, the
\* byte after it
PatchAddresses == {kernel_heap - 1, kernel_heap, kernel_heap + KERNEL_HEAP_SIZE - 1,
                   kernel_heap + KERNEL_HEAP_SIZE}

\* active_dims of the replacement: 4, 1024 and 1028 bytes
PatchDims == {1, 256, 257}

\* capacity of the replacement
PatchCaps == {1, 257}

\* the seeds of the patterns the client proposes
ProposeSeeds == {"s1", "s2"}

\* the signatures the client looks up
LookupHashes == {0, 1, 2}

\* the globals when kmain is entered
Boot ==
    /\ rev \in Revisions
    /\ heap_offset = 0
    /\ metadata_pool = IF rev = "A" THEN initialize_metadata_pool ELSE <<>>
    /\ free_metadata_list = IF rev = "A" THEN 1 ELSE NULL
    /\ allocation_list = NULL
    /\ allocation_counter = 0
    /\ gc_metadata_count = 0
    /\ collective = [thought_space |-> [i \in 0..(MAX_THOUGHTS - 1) |-> ZeroVec],
                     thought_count |-> 0, global_coherence |-> 0]
    /\ holo_system = [memory_pool |-> [i \in 0..(MAX_MEMORY_ENTRIES - 1) |-> ZeroEntry],
                      memory_count |-> 0, global_timestamp |-> 0]
    /\ entity_pool = [i \in 0..(MAX_ENTITIES - 1) |-> ZeroEntity]
    /\ active_entity_count = 0
    /\ genes = <<>>
    /\ crashed = FALSE
    /\ returned = <<>>
    /\ collected = {}
    /\ deactivated = {}
    /\ encoded = <<>>
    /\ owned = {}
    /\ freed = {}
    /\ calls = 0
    /\ patch = NoPatch
    /\ written = <<>>
    /\ last = [op |-> "boot", arg |-> 0, res |-> 0]
    /\ trace = <<>>
    /\ vocab_i = 0
    /\ last_update = 0

\* the functions are called by a client
Init == Boot /\ pc = "client" /\ lcg = NoFill

Swept(tr) == {tr[k][2] : k \in {j \in DOMAIN tr : tr[j][1] = "sweep"}}

Deactivated(tr) == {tr[k][2] : k \in {j \in DOMAIN tr : tr[j][1] = "deactivate"}}

\* the globals after the call; a run whose collector recursed without end
\* stops where it was
Globals(m, op, arg, res, own, fr, enc) ==
    /\ calls' = calls + 1
    /\ rev' = rev
    /\ lcg' = lcg
    /\ trace' = m.trace
    /\ IF m.crashed
       THEN /\ crashed' = TRUE
            /\ last' = [op |-> op, arg |-> arg, res |-> -1]
            /\ UNCHANGED <<heap_offset, metadata_pool, free_metadata_list, allocation_list,
                           allocation_counter, gc_metadata_count, collective, holo_system,
                           entity_pool, active_entity_count, genes, returned, collected,
                           deactivated, encoded, owned, freed, patch, written>>
       ELSE /\ crashed' = FALSE
            /\ last' = [op |-> op, arg |-> arg, res |-> res]
            /\ heap_offset' = m.heap_offset
            /\ metadata_pool' = m.metadata_pool
            /\ free_metadata_list' = m.free_metadata_list
            /\ allocation_list' = m.allocation_list
            /\ allocation_counter' = m.allocation_counter
            /\ gc_metadata_count' = m.gc_metadata_count
            /\ collective' = m.collective
            /\ holo_system' = m.holo_system
            /\ entity_pool' = m.entity_pool
            /\ active_entity_count' = m.active_entity_count
            /\ genes' = m.genes
            /\ returned' = m.returned
            /\ patch' = m.patch
            /\ written' = m.written
            /\ collected' = collected \cup Swept(m.trace)
            /\ deactivated' = deactivated \cup Deactivated(m.trace)
            /\ encoded' = enc
            /\ owned' = own
            /\ freed' = fr

\* a call by the client
Commit(m, op, arg, res, own, fr, enc) ==
    /\ Globals(m, op, arg, res, own, fr, enc)
    /\ UNCHANGED <<pc, vocab_i, last_update>>

Running == ~crashed /\ pc = "client" /\ calls < MaxCalls

Kmalloc(n) ==
    /\ Running
    /\ LET r == call("kmalloc", <<Machine, n>>)
       IN  Commit(r.m, "kmalloc", n, r.ptr,
                  IF r.ptr = NULL THEN owned ELSE owned \cup {r.ptr}, freed, encoded)

Kfree(p) ==
    /\ Running
    /\ Commit(call("kfree", <<Machine, p>>), "kfree", p, 0, owned \ {p},
              IF p \in owned THEN freed \cup {p} ELSE freed, encoded)

\* a pattern is created and broadcast, as load_initial_genome_vocabulary does
Broadcast(seed) ==
    /\ Running
    /\ rev \in {"A", "C"}
    /\ LET c == call("create_hyper_vector", <<Machine, seed>>)
       IN  Commit(call("broadcast_thought", <<c.m, c.vec>>), "broadcast", hash_data(seed),
                  IF c.vec.valid THEN 1 ELSE 0, owned, freed, encoded)

\* two patterns are created and encoded
Encode(sin, sout) ==
    /\ Running
    /\ rev \in {"C", "H"}
    /\ LET a == call("create_hyper_vector", <<Machine, sin>>)
           b == call("create_hyper_vector", <<a.m, sout>>)
       IN  Commit(call("encode_holographic_memory", <<b.m, a.vec, b.vec>>), "encode",
                  a.vec.hash_sig, b.vec.hash_sig, owned, freed,
                  Append(encoded, <<a.vec.hash_sig, b.vec.hash_sig>>))

Retrieve(h) ==
    /\ Running
    /\ rev \in {"C", "H"}
    /\ Commit(Machine, "retrieve", h, retrieve_holographic_memory(holo_system, h),
              owned, freed, encoded)

InitEntities ==
    /\ Running
    /\ rev \in {"A", "C"}
    /\ active_entity_count = 0
    /\ Commit(call("initialize_emergent_entities", <<Machine>>), "init_entities", 0, 0,
              owned, freed, encoded)

\* kmain calls update_entities
Tick ==
    /\ Running
    /\ rev \in {"A", "C"}
    /\ Commit(call("update_entities", <<Machine>>), "tick", 0, 0, owned, freed, encoded)

\* res: the entity returned
Spawn ==
    /\ Running
    /\ rev \in {"C", "H"}
    /\ LET r == call("spawn_entity", <<Machine>>)
       IN  Commit(r.m, "spawn", 0, r.entity, owned, freed, encoded)

\* the locations handed to destroy_hyper_vector
DestroyRefs ==
    {<<"thought", 0>>, <<"thought", MAX_THOUGHTS - 1>>, <<"state", 0>>,
     <<"state", INITIAL_ENTITIES - 1>>, <<"task", 0>>}

\* rev C: kmain's loop increments global_timestamp while it waits
Idle ==
    /\ Running
    /\ rev = "C"
    /\ holo_system.global_timestamp + IDLE_STRIDE <= MaxTime
    /\ Commit([Machine EXCEPT !.holo_system.global_timestamp = @ + IDLE_STRIDE],
              "idle", 0, 0, owned, freed, encoded)

\* destroy_hyper_vector on a vector held in the globals.  arg: the location
Destroy(ref) ==
    /\ Running
    /\ Commit(call("destroy_hyper_vector", <<Machine, ref>>), "destroy", ref, 0,
              owned, freed, encoded)

\* the client fills in a KernelPatch: the replacement is a buffer of its own
NewPatch(address, dims, cap) ==
    /\ Running
    /\ rev \in {"C", "H"}
    /\ patch = NoPatch
    /\ Commit([Machine EXCEPT !.patch =
                  [pattern |-> ZeroVec,
                   replacement |-> [data |-> CLIENT_BUFFER, capacity |-> cap,
                                    active_dims |-> dims, hash_sig |-> 0, valid |-> TRUE],
                   address |-> address, applied |-> FALSE]],
              "new_patch", address, dims, owned, freed, encoded)

\* arg: was the patch applied before the call; res: the writes of the call
Apply ==
    /\ Running
    /\ rev \in {"C", "H"}
    /\ patch # NoPatch
    /\ LET m == call("apply_kernel_patch", <<Machine>>)
       IN  Commit(m, "apply", IF patch.applied THEN 1 ELSE 0,
                  Len(m.written) - Len(written), owned, freed, encoded)

\* the patterns are created and a patch of entity e's flag is proposed; one
\* seed given twice is one pattern passed as both.  arg: the entity and the
\* two patterns
Propose(e, sold, snew) ==
    /\ Running
    /\ rev \in {"C", "H"}
    /\ LET a == call("create_hyper_vector", <<Machine, sold>>)
           b == IF snew = sold THEN a ELSE call("create_hyper_vector", <<a.m, snew>>)
       IN  Commit(call("propose_kernel_patch", <<b.m, e, a.vec, b.vec, flag_address(e)>>),
                  "propose", [entity |-> e, old |-> a.vec, new |-> b.vec], 0,
                  owned, freed, encoded)

Next ==
    \/ \E n \in KmallocSizes : Kmalloc(n)
    \/ \E p \in owned \cup freed \cup {WILD_PTR} : Kfree(p)
    \/ \E seed \in ClientSeeds : Broadcast(seed)
    \/ \E sin \in ClientSeeds, sout \in ClientSeeds : Encode(sin, sout)
    \/ \E h \in LookupHashes : Retrieve(h)
    \/ InitEntities
    \/ Tick
    \/ Idle

Spec == Init /\ [][Next]_vars

\* the builds that have apply_kernel_patch, with the calls around a patch
PatchInit == Init /\ rev \in {"C", "H"}

PatchNext ==
    \/ \E address \in PatchAddresses, dims \in PatchDims, cap \in PatchCaps :
           NewPatch(address, dims, cap)
    \/ Apply
    \/ \E e \in 0..(MAX_ENTITIES - 1), sold \in ProposeSeeds, snew \in ProposeSeeds :
           Propose(e, sold, snew)
    \/ InitEntities

PatchSpec == PatchInit /\ [][PatchNext]_vars

\* the entity pool: its initialisation, spawn, the tick, and the allocator
\* calls around them
EntityInit == Init

EntityNext ==
    \/ \E n \in KmallocSizes : Kmalloc(n)
    \/ \E p \in owned \cup freed \cup {WILD_PTR} : Kfree(p)
    \/ InitEntities
    \/ Spawn
    \/ Tick
    \/ Idle

EntitySpec == EntityInit /\ [][EntityNext]_vars

(* -------------------------------- kmain -------------------------------- *)
\* kmain runs; rev A has no vocabulary
KmainInit == Boot /\ lcg = NoFill /\ pc = IF rev = "A" THEN "entities" ELSE "vocab"

KmainRunning == ~crashed /\ pc # "client" /\ calls < MaxSteps

\* one iteration of the loop of load_initial_genome_vocabulary
LoadVocabulary ==
    /\ KmainRunning
    /\ pc = "vocab"
    /\ LET m == load_vocabulary_pattern(Machine, Vocab[vocab_i + 1])
       IN  /\ Globals(m, "vocabulary", vocab_i, 0, owned, freed, encoded)
           /\ vocab_i' = IF m.crashed THEN vocab_i ELSE vocab_i + 1
           /\ pc' = IF ~m.crashed /\ vocab_i + 1 = Len(Vocab) THEN "entities" ELSE pc
           /\ UNCHANGED last_update

InitializeEntities ==
    /\ KmainRunning
    /\ pc = "entities"
    /\ LET m == call("initialize_emergent_entities", <<Machine>>)
       IN  /\ Globals(m, "init_entities", 0, 0, owned, freed, encoded)
           /\ pc' = IF m.crashed THEN pc ELSE IF rev = "H" THEN "tasks" ELSE "loop"
           /\ UNCHANGED <<vocab_i, last_update>>

\* rev H: the path vector is assigned
AssignTasks ==
    /\ KmainRunning
    /\ pc = "tasks"
    /\ Globals(assign_tasks(Machine), "tasks", 0, 0, owned, freed, encoded)
    /\ pc' = "loop"
    /\ UNCHANGED <<vocab_i, last_update>>

\* the comparison without the wrap of the subtraction
update_is_due_unwrapped(timestamp, fired) == timestamp - fired > UPDATE_INTERVAL

\* global_timestamp - last_update > 500000, in uint32_t arithmetic
update_is_due(timestamp, fired) == (timestamp - fired) % TICK_MODULUS > UPDATE_INTERVAL

\* one iteration of while (1).  arg: 1 when update_entities was called
LoopIteration ==
    /\ KmainRunning
    /\ pc = "loop"
    /\ LET due == update_is_due(holo_system.global_timestamp, last_update)
           m == IF due THEN call("update_entities", <<Machine>>) ELSE Machine
       IN  /\ Globals([m EXCEPT !.holo_system.global_timestamp = (@ + 1) % TICK_MODULUS],
                      "loop", IF due THEN 1 ELSE 0, 0, owned, freed, encoded)
           /\ last_update' = IF due /\ ~m.crashed THEN m.holo_system.global_timestamp
                             ELSE last_update
           /\ UNCHANGED <<pc, vocab_i>>

KmainNext ==
    \/ LoadVocabulary
    \/ InitializeEntities
    \/ AssignTasks
    \/ LoopIteration

KmainSpec == KmainInit /\ [][KmainNext]_vars

\* kmain is the only thread of control: while it has not halted it takes
\* its next step (every step of kmain is counted in calls)
KmainStep == KmainRunning /\ calls' = calls + 1

KmainFairSpec == KmainSpec /\ WF_calls(KmainStep)

\* vectors in the globals, their creation and their destruction
VectorNext ==
    \/ \E n \in KmallocSizes : Kmalloc(n)
    \/ \E seed \in ClientSeeds : Broadcast(seed)
    \/ InitEntities
    \/ \E ref \in DestroyRefs : Destroy(ref)

VectorInit == Init /\ rev \in {"A", "C"}

VectorSpec == VectorInit /\ [][VectorNext]_vars

(* ---------------------- create_hyper_vector's values -------------------- *)
\* create_hyper_vector has allocated and cleared the buffer and hashed input
CreateInit ==
    /\ Boot
    /\ pc = "create"
    /\ \E input \in DOMAIN SeedOf :
           lcg = [NoFill EXCEPT !.input = input, !.seed = SeedOf[input]]

FillDimension ==
    /\ pc = "create"
    /\ lcg.i < LcgDims
    /\ lcg' = fill_dimension(lcg)
    /\ UNCHANGED <<rev, heap_offset, metadata_pool, free_metadata_list, allocation_list,
                   allocation_counter, gc_metadata_count, collective, holo_system,
                   entity_pool, active_entity_count, genes, crashed,
                   returned, collected, deactivated, encoded, owned, freed, calls, patch,
                   written, pc, vocab_i, last_update, last, trace>>

CreateNext == FillDimension

CreateSpec == CreateInit /\ [][CreateNext]_vars

(* ----------------------------- properties ------------------------------ *)
AllocatorState ==
    <<heap_offset, metadata_pool, free_metadata_list, allocation_list, allocation_counter>>

\* C1: a failing kmalloc(n) leaves heap_offset, the free records, the live
\* list and the allocation-id counter as they were, and a second failing call
\* of the same size fails in the same way.
C1_FailingAllocateHasNoSideEffect ==
    [][(last'.op = "kmalloc" /\ last'.res = NULL)
        => /\ UNCHANGED AllocatorState
           /\ (last.op = "kmalloc" /\ last.res = NULL /\ last.arg = last'.arg)
                  => trace' = trace]_vars

\* a kmalloc of rev A has just failed for want of a record, the arena having room
C1_Witness ==
    /\ rev = "A" /\ last.op = "kmalloc" /\ last.res = NULL /\ last.arg > 0
    /\ free_metadata_list = NULL
    /\ heap_offset + AlignUp(last.arg, ALIGN_POOL) < KERNEL_HEAP_SIZE

RECURSIVE ListOf(_, _)
\* the records of a list, from its head
ListOf(pool, head) ==
    IF head = NULL THEN <<>> ELSE <<head>> \o ListOf(pool, pool[head].next)

LiveBlocks == {ListOf(metadata_pool, allocation_list)[k] :
                  k \in DOMAIN ListOf(metadata_pool, allocation_list)}

Alignment == IF rev = "A" THEN ALIGN_POOL ELSE ALIGN_REC

\* C2: kmalloc(n), n > 0, fails exactly when heap_offset + roundup(n) would
\* exceed the arena or no free record is left; a successful call advances
\* heap_offset by roundup(n) and moves one record from the free list to the
\* live list.
C2_AllocateFailsIffNoRoom ==
    [][(last'.op = "kmalloc" /\ last'.arg > 0 /\ rev \in {"A", "C"})
        => LET r == AlignUp(last'.arg, Alignment)
               no_record == rev = "A" /\ free_metadata_list = NULL
           IN  /\ (last'.res = NULL) <=> (heap_offset + r > KERNEL_HEAP_SIZE \/ no_record)
               /\ last'.res # NULL =>
                      /\ heap_offset' = heap_offset + r
                      /\ Len(ListOf(metadata_pool', allocation_list'))
                             = Len(ListOf(metadata_pool, allocation_list)) + 1
                      /\ rev = "A" =>
                             Len(ListOf(metadata_pool', free_metadata_list'))
                                = Len(ListOf(metadata_pool, free_metadata_list)) - 1]_vars

Disjoint(a, b) ==
    a[2] = 0 \/ b[2] = 0 \/ a[1] + a[2] <= b[1] \/ b[1] + b[2] <= a[1]

\* C3: the ranges [ptr, ptr + size) of all successful kmalloc calls are
\* pairwise disjoint and lie inside the arena, those of pointers since freed
\* and collected included.
C3_ReturnedRangesDisjoint ==
    /\ \A j, k \in DOMAIN returned : j # k => Disjoint(returned[j], returned[k])
    /\ \A k \in DOMAIN returned :
           /\ kernel_heap <= returned[k][1]
           /\ returned[k][1] + returned[k][2] <= kernel_heap + KERNEL_HEAP_SIZE

\* three ranges have been returned and one of them has been freed and collected
C3_Witness ==
    /\ Len(returned) >= 3
    /\ \E k \in DOMAIN returned : returned[k][1] \in collected /\ returned[k][2] > 0

\* C4: every pointer kmalloc has returned and whose record has not been
\* collected has exactly one record in the live list, and every live record
\* holds a pointer kmalloc returned.
C4_OneLiveRecordPerPointer ==
    rev \in {"A", "C"} =>
        /\ \A k \in DOMAIN returned :
               returned[k][1] \notin collected =>
                   Cardinality({b \in LiveBlocks :
                                   metadata_pool[b].ptr = returned[k][1]}) = 1
        /\ \A b \in LiveBlocks :
               \E k \in DOMAIN returned : returned[k][1] = metadata_pool[b].ptr

GcRan(tr) == \E k \in DOMAIN tr : tr[k][1] = "gc_enter"

Thoughts(c) == {c.thought_space[i].hash_sig : i \in 0..(c.thought_count - 1)}

\* memory_pressure() > 80%
PressureAbove80 == 5 * heap_offset > 4 * KERNEL_HEAP_SIZE

\* C5 as stated: heap_offset never decreases, and kfree and the collector it
\* runs change nothing but metadata records.
C5_FreeChangesOnlyMetadata ==
    [][/\ heap_offset' >= heap_offset
       /\ (last'.op = "kfree" /\ rev = "A")
              => UNCHANGED <<heap_offset, allocation_counter, collective, holo_system,
                             entity_pool, active_entity_count, genes, returned>>]_vars

\* C5: heap_offset never decreases in any call, nor does the pressure; a
\* kfree that does not run the collector changes nothing but the record it
\* flags, and one that runs the collector of rev A leaves the entities and
\* the associative memory alone and adds only pressure thoughts (or the empty
\* slot of a pressure thought whose copy failed) to the Collective.
C5_ArenaNeverShrinks ==
    [][/\ heap_offset' >= heap_offset
       /\ (5 * heap_offset > 4 * KERNEL_HEAP_SIZE) => (5 * heap_offset' > 4 * KERNEL_HEAP_SIZE)
       /\ (last'.op = "kfree" /\ ~GcRan(trace'))
              => UNCHANGED <<heap_offset, free_metadata_list, allocation_list,
                             allocation_counter, gc_metadata_count, collective,
                             holo_system, entity_pool, active_entity_count, genes,
                             returned, collected>>
       /\ (last'.op = "kfree" /\ GcRan(trace') /\ rev = "A")
              => /\ UNCHANGED <<holo_system, entity_pool, active_entity_count, genes>>
                 /\ Thoughts(collective') \subseteq
                        Thoughts(collective) \cup {hash_data("SYSTEM_MEMORY_PRESSURE"), 0}]_vars

\* a kfree of rev A has run the collector, which allocated and broadcast a
\* pressure thought
C5_Witness ==
    /\ rev = "A" /\ last.op = "kfree" /\ GcRan(trace)
    /\ hash_data("SYSTEM_MEMORY_PRESSURE") \in Thoughts(collective)
    /\ collected # {}

\* C6: kfree(ptr) of a pointer with a live record flags that record and,
\* outside the collector, no other; the collector runs in that call exactly
\* when the pressure is above 80%.
C6_FreeFlagsOneRecord ==
    [][(last'.op = "kfree" /\ rev \in {"A", "C"} /\ ~crashed'
          /\ find_block(metadata_pool, allocation_list, last'.arg) # NULL)
        => LET b == find_block(metadata_pool, allocation_list, last'.arg)
           IN  /\ trace'[1] = <<"kfree", last'.arg>>
               /\ GcRan(trace') <=> PressureAbove80
               /\ PressureAbove80 => trace'[2] = <<"gc_enter", 1>>
               /\ ~PressureAbove80 =>
                      /\ Len(trace') = 1
                      /\ metadata_pool' = [metadata_pool EXCEPT ![b].is_garbage = TRUE]
                      /\ allocation_list' = allocation_list]_vars

\* a kfree of a live pointer has run the collector
C6_Witness ==
    /\ last.op = "kfree" /\ last.res = 0 /\ Len(trace) > 1
    /\ trace[1] = <<"kfree", last.arg>> /\ trace[2][1] = "gc_enter"

\* C7: kfree(ptr) of a pointer without a live record changes nothing at any
\* pressure: no record is flagged, the collector does not run, the entities
\* and the Collective stay as they are.
C7_UnknownFreeIsNoOp ==
    [][(last'.op = "kfree" /\ rev \in {"A", "C"}
          /\ find_block(metadata_pool, allocation_list, last'.arg) = NULL)
        => /\ ~GcRan(trace')
           /\ UNCHANGED <<heap_offset, metadata_pool, free_metadata_list, allocation_list,
                          allocation_counter, gc_metadata_count, collective, holo_system,
                          entity_pool, active_entity_count, genes>>]_vars

\* C8: thought_count never exceeds MAX_THOUGHTS, and a broadcast into a full
\* buffer removes the thought at index 0, keeps the others in their order and
\* appends the new thought last, at every pressure.
C8_CollectiveIsFifo ==
    [][/\ collective'.thought_count <= MAX_THOUGHTS
       /\ (last'.op = "broadcast" /\ last'.res = 1 /\ ~crashed'
             /\ collective.thought_count = MAX_THOUGHTS)
              => /\ collective'.thought_count = MAX_THOUGHTS
                 /\ \A i \in 0..(MAX_THOUGHTS - 2) :
                        collective'.thought_space[i] = collective.thought_space[i + 1]
                 /\ collective'.thought_space[MAX_THOUGHTS - 1].hash_sig
                        \in {last'.arg, 0}]_vars

\* the encodes the memory still holds, oldest first
Remaining ==
    IF Len(encoded) <= MAX_MEMORY_ENTRIES THEN encoded
    ELSE SubSeq(encoded, Len(encoded) - MAX_MEMORY_ENTRIES + 1, Len(encoded))

StoredSlots(h) ==
    {i \in 0..(holo_system.memory_count - 1) :
        holo_system.memory_pool[i].input_pattern.hash_sig = h}

Newest(S) == CHOOSE i \in S : \A j \in S : j <= i

\* C9 as stated: memory_count never exceeds MAX_MEMORY_ENTRIES; after one
\* encode beyond capacity the evicted entry's input signature is not found;
\* a signature still present is found with the output of the latest encode
\* under it.
C9_EvictedHashIsGone ==
    /\ holo_system.memory_count <= MAX_MEMORY_ENTRIES
    /\ Len(encoded) = MAX_MEMORY_ENTRIES + 1
           => retrieve_holographic_memory(holo_system, encoded[1][1]) = NULL
    /\ \A h \in LookupHashes :
           StoredSlots(h) # {} =>
               retrieve_holographic_memory(holo_system, h) = Newest(StoredSlots(h)) + 1

\* C9: memory_count never exceeds MAX_MEMORY_ENTRIES; the memory holds the
\* latest MAX_MEMORY_ENTRIES encodes in their order (an entry whose copy
\* failed holds signature 0); after one encode beyond capacity the evicted
\* signature is not found unless a remaining entry holds it too; a signature
\* some entry holds is found in the latest such entry, any other is not found.
C9_MemoryIsFifoNewestFirst ==
    /\ holo_system.memory_count <= MAX_MEMORY_ENTRIES
    /\ holo_system.memory_count = Len(Remaining)
    /\ \A i \in 0..(holo_system.memory_count - 1) :
           /\ holo_system.memory_pool[i].valid
           /\ holo_system.memory_pool[i].input_pattern.hash_sig \in {Remaining[i + 1][1], 0}
           /\ holo_system.memory_pool[i].output_pattern.hash_sig \in {Remaining[i + 1][2], 0}
           /\ rev = "H" =>
                  /\ holo_system.memory_pool[i].input_pattern.hash_sig = Remaining[i + 1][1]
                  /\ holo_system.memory_pool[i].output_pattern.hash_sig = Remaining[i + 1][2]
    /\ (Len(encoded) = MAX_MEMORY_ENTRIES + 1 /\ StoredSlots(encoded[1][1]) = {})
           => retrieve_holographic_memory(holo_system, encoded[1][1]) = NULL
    /\ \A h \in LookupHashes :
           retrieve_holographic_memory(holo_system, h) =
               IF StoredSlots(h) = {} THEN NULL ELSE Newest(StoredSlots(h)) + 1

\* one encode beyond capacity has evicted a signature no remaining entry
\* holds, a lookup of it has found nothing, and a signature held twice is
\* there to be looked up
C9_Witness ==
    /\ Len(encoded) = MAX_MEMORY_ENTRIES + 1
    /\ last.op = "retrieve" /\ last.arg = encoded[1][1] /\ last.arg # 0
    /\ last.res = NULL
    /\ \E h \in LookupHashes : Cardinality(StoredSlots(h)) > 1

EventsOf(tr, kind) == {k \in DOMAIN tr : tr[k][1] = kind}

\* C10: no weakest-gene eviction, by the collector or by update_entities,
\* acts on an entity with a single gene, and gene_count falls to 0 only when
\* the collector deactivates the entity.
C10_LastGeneNeverEvicted ==
    [][/\ \A k \in EventsOf(trace', "evict") : trace'[k][3] > 1
       /\ \A e \in DOMAIN entity_pool :
              (entity_pool[e].gene_count > 0 /\ entity_pool'[e].gene_count = 0)
                  => \E k \in EventsOf(trace', "deactivate") : trace'[k][2] = e]_vars

\* an entity with one gene has met the eviction and kept its gene
C10_Witness ==
    \E k \in EventsOf(trace, "spared") :
        /\ trace[k][3] = 1
        /\ entity_pool[trace[k][2]].gene_count = 1
        /\ entity_pool[trace[k][2]].is_active

\* the two cases in which apply must reject the patch
PatchOversize(p) == p.replacement.active_dims * SIZEOF_FLOAT > PATCH_CEILING

PatchOutsideArena(p) ==
    p.address < kernel_heap \/ p.address >= kernel_heap + KERNEL_HEAP_SIZE

\* C11: apply on a patch that is not yet applied writes no byte and leaves
\* applied = false whenever the replacement payload exceeds 1024 bytes or the
\* target address lies outside the managed arena.
C11_RejectedPatchWritesNothing ==
    [][(last'.op = "apply" /\ ~patch.applied
            /\ (PatchOversize(patch) \/ PatchOutsideArena(patch)))
        => (written' = written /\ ~patch'.applied)]_vars

\* rev C has rejected a patch whose address is outside the arena
C11_Witness ==
    /\ rev = "C"
    /\ last.op = "apply" /\ last.arg = 0
    /\ PatchOutsideArena(patch) /\ ~PatchOversize(patch)
    /\ ~patch.applied /\ written = <<>>

\* the globals apply may touch, and all the others
PatchState == <<patch, written>>

KernelState ==
    <<heap_offset, metadata_pool, free_metadata_list, allocation_list,
      allocation_counter, gc_metadata_count, collective, holo_system, entity_pool,
      active_entity_count, genes>>

\* C12: apply on a patch whose applied flag is set writes nothing and changes
\* no state, and an apply that follows an apply leaves the memory and the
\* patch as the first one left them.
C12_ApplyIsIdempotent ==
    [][(last'.op = "apply" /\ (patch.applied \/ last.op = "apply"))
        => (PatchState' = PatchState /\ KernelState' = KernelState)]_vars

\* an applied patch, whose bytes were written, has been applied again
C12_Witness ==
    /\ last.op = "apply" /\ last.arg = 1 /\ last.res = 0
    /\ patch.applied /\ Len(written) = 1

NewestEntry(hs) == hs.memory_pool[hs.memory_count - 1]

NewestThought(c) == c.thought_space[c.thought_count - 1]

\* the newest entry of the memory is old -> new and the newest thought is new
Proposed(hs, c, old, new) ==
    /\ hs.memory_count > 0
    /\ NewestEntry(hs).valid
    /\ NewestEntry(hs).input_pattern.hash_sig = old.hash_sig
    /\ NewestEntry(hs).output_pattern.hash_sig = new.hash_sig
    /\ c.thought_count > 0
    /\ NewestThought(c).hash_sig = new.hash_sig

\* C13: propose(entity, old, new, address), old and new being valid patterns,
\* never writes to the target address and never marks a patch applied; what
\* it does is add one associative-memory entry old -> new and broadcast new
\* to the Collective once; no entity's is_active flag, the proposer's
\* included, and no genome is changed by it.
C13_ProposeOnlyRecordsAndBroadcasts ==
    [][(last'.op = "propose" /\ ~crashed' /\ last'.arg.old.valid /\ last'.arg.new.valid)
        => /\ written' = written
           /\ patch' = patch
           /\ holo_system'.memory_count = Min(holo_system.memory_count + 1, MAX_MEMORY_ENTRIES)
           /\ collective'.thought_count = Min(collective.thought_count + 1, MAX_THOUGHTS)
           /\ Proposed(holo_system', collective', last'.arg.old, last'.arg.new)
           /\ \A i \in DOMAIN entity_pool :
                  entity_pool'[i].is_active = entity_pool[i].is_active
           /\ active_entity_count' = active_entity_count
           /\ genes' = genes]_vars

\* src/holographic_kernel.c: two valid patterns were proposed and recorded
C13_Witness ==
    /\ rev = "H"
    /\ last.op = "propose" /\ last.arg.old.valid /\ last.arg.new.valid
    /\ last.arg.old.hash_sig # last.arg.new.hash_sig
    /\ Proposed(holo_system, collective, last.arg.old, last.arg.new)
    /\ written = <<>>

\* the slots in use
Pooled(n) == 0..(n - 1)

\* C14: after init_entities on an empty pool the pool holds the initial
\* cohort, every pooled entity is active and every pooled entity has at
\* least one gene in its genome chain, whatever the allocations did.
C14_InitialCohortHasGenes ==
    [][(last'.op = "init_entities" /\ ~crashed')
        => /\ active_entity_count' = INITIAL_ENTITIES
           /\ \A i \in Pooled(active_entity_count') :
                  /\ entity_pool'[i].is_active
                  /\ entity_pool'[i].gene_count >= 1
                  /\ entity_pool'[i].genome # NULL]_vars

\* an initial cohort all of whose genes were allocated
C14_Witness ==
    /\ last.op = "init_entities"
    /\ active_entity_count = INITIAL_ENTITIES
    /\ \A i \in Pooled(active_entity_count) :
           entity_pool[i].is_active /\ entity_pool[i].genome # NULL

\* the tick has freed nothing
NothingFreed(tr) == EventsOf(tr, "kfree") \cup EventsOf(tr, "kfree_unknown") = {}

\* C15: in a tick that starts with memory pressure above 0.8, every entity
\* whose fitness_score is below 30 keeps its state and task vector buffers,
\* its is_active, confidence, fitness_score and domain label, and its age
\* grows by exactly 1; when every entity is such, the tick allocates nothing
\* and frees nothing.
C15_PressureSkipIsShallow ==
    [][(last'.op = "tick" /\ rev = "C" /\ ~crashed' /\ PressureAbove80)
        => /\ \A i \in Pooled(active_entity_count) :
                  entity_pool[i].fitness_score < 30
                      => entity_pool'[i] = [entity_pool[i] EXCEPT !.age = @ + 1]
           /\ (\A i \in Pooled(active_entity_count) : entity_pool[i].fitness_score < 30)
                  => heap_offset' = heap_offset /\ NothingFreed(trace')]_vars

\* a tick under pressure has been skipped by an active entity of low fitness
C15_Witness ==
    /\ rev = "C" /\ last.op = "tick" /\ PressureAbove80
    /\ \E i \in Pooled(active_entity_count) :
           /\ entity_pool[i].is_active
           /\ entity_pool[i].fitness_score < 30
           /\ entity_pool[i].age = 1

\* C16: a non-skipped entity with confidence > 0.8, fitness_score > 50 and
\* mutation_rate > 100 proposes a patch in the tick and is left with
\* confidence 0.5 and fitness_score 0; an entity failing one of the three
\* conditions proposes nothing.  The first half speaks of entities that no
\* run produces: mutation_rate is 50 after initialize_emergent_entities and
\* 100 after spawn_entity and nothing else assigns it, and in rev C the
\* fitness_score of a pooled entity stays 0.
C16_TriggerNeverArmed ==
    \A i \in Pooled(active_entity_count) :
        /\ entity_pool[i].mutation_rate <= 100
        /\ rev = "C" => entity_pool[i].fitness_score = 0 /\ entity_pool[i].confidence <= 800

\* C16, second half: a tick none of whose entities meets the three
\* conditions proposes nothing and adds no entry to the memory.
C16_UnarmedTickProposesNothing ==
    [][(last'.op = "tick" /\ ~crashed')
        => /\ EventsOf(trace', "propose") = {}
           /\ holo_system'.memory_pool = holo_system.memory_pool
           /\ holo_system'.memory_count = holo_system.memory_count]_vars

\* a tick over active entities has proposed nothing
C16_UnarmedWitness ==
    /\ rev = "C" /\ last.op = "tick"
    /\ \E i \in Pooled(active_entity_count) :
           entity_pool[i].is_active /\ entity_pool[i].mutation_rate = 50
    /\ holo_system.memory_count = 0

\* the ring neighbours of slot i in a pool of n
RingPrev(i, n) == IF i = 0 THEN n - 1 ELSE i - 1

RingNext(i, n) == IF i = n - 1 THEN 0 ELSE i + 1

C19_PoolSlotsAreStable ==
    [][/\ active_entity_count' <= MAX_ENTITIES
       /\ active_entity_count' >= active_entity_count
       /\ \A i \in Pooled(active_entity_count') : entity_pool'[i].id = i
       /\ \A i \in Pooled(active_entity_count) : entity_pool'[i].id = entity_pool[i].id
       /\ (last'.op = "spawn" /\ active_entity_count = MAX_ENTITIES)
              => /\ last'.res = NULL
                 /\ KernelState' = KernelState
                 /\ PatchState' = PatchState
                 /\ ~crashed']_vars

\* the pool was filled by spawn_entity and one more spawn was refused
C19_Witness ==
    /\ last.op = "spawn" /\ last.res = NULL /\ ~crashed
    /\ active_entity_count = MAX_ENTITIES
    /\ trace = << <<"spawn_full">> >>
    /\ \A i \in Pooled(active_entity_count) :
           entity_pool[i].id = i /\ entity_pool[i].domain_name = "spawned"

\* the globals that hold vectors
Holders ==
    [collective |-> collective, holo_system |-> holo_system,
     entity_pool |-> entity_pool, genes |-> genes]

\* the pointers the call has passed to kfree (rev A and rev C report every
\* pointer that is not NULL)
PassedToFree(tr) ==
    {tr[k][2] : k \in EventsOf(tr, "kfree") \cup EventsOf(tr, "kfree_unknown")
                       \cup EventsOf(tr, "kfree_warning")}

\* C20: the first destroy of a vector passes its buffer to free and leaves
\* the vector without buffer and with valid = false; a second destroy of the
\* same vector passes nothing to free and changes no state.
C20_DestroyIsIdempotent ==
    [][(last'.op = "destroy" /\ ~crashed')
        => /\ (get_vec(Holders, last'.arg).valid \/ get_vec(Holders, last'.arg).data # NULL)
                  => /\ get_vec(Holders, last'.arg).data \in PassedToFree(trace')
                     /\ get_vec(Holders', last'.arg).data = NULL
                     /\ ~get_vec(Holders', last'.arg).valid
           /\ (last.op = "destroy" /\ last.arg = last'.arg)
                  => /\ PassedToFree(trace') = {}
                     /\ KernelState' = KernelState]_vars

\* C20, for the vectors that have a buffer: the destroy passes the buffer to
\* free and leaves the vector without buffer and invalid; a destroy of a
\* vector without buffer passes nothing to free and changes no state.
C20_DestroyOfBufferIsIdempotent ==
    [][(last'.op = "destroy" /\ ~crashed')
        => /\ get_vec(Holders, last'.arg).data # NULL
                  => /\ get_vec(Holders, last'.arg).data \in PassedToFree(trace')
                     /\ get_vec(Holders', last'.arg).data = NULL
                     /\ ~get_vec(Holders', last'.arg).valid
           /\ get_vec(Holders, last'.arg).data = NULL
                  => /\ trace' = <<>>
                     /\ KernelState' = KernelState]_vars

\* a vector with a buffer has been destroyed
C20_Witness ==
    /\ last.op = "destroy" /\ ~crashed
    /\ PassedToFree(trace) # {}
    /\ get_vec(Holders, last.arg).data = NULL
    /\ ~get_vec(Holders, last.arg).valid

\* the containers of vectors: the genes, the state and task_vector of the
\* pooled entities, the thoughts below thought_count and the patterns of the
\* memory entries below memory_count
Containers ==
    {<<"gene", g>> : g \in DOMAIN genes}
    \cup {<<"state", i>> : i \in Pooled(active_entity_count)}
    \cup {<<"task", i>> : i \in Pooled(active_entity_count)}
    \cup {<<"thought", i>> : i \in Pooled(collective.thought_count)}
    \cup {<<"mem_in", i>> : i \in Pooled(holo_system.memory_count)}
    \cup {<<"mem_out", i>> : i \in Pooled(holo_system.memory_count)}

\* the containers that reference the buffer of container a
Sharers(a) ==
    {b \in Containers \ {a} : get_vec(Holders, b).data = get_vec(Holders, a).data}

\* C21: in every reachable state no buffer is referenced by two containers.
C21_ExclusiveOwnership ==
    \A a \in Containers : get_vec(Holders, a).data # NULL => Sharers(a) = {}

\* C21, for the builds that store copies (rev A, rev C)
C21_CopiesAreExclusive == rev # "H" => C21_ExclusiveOwnership

\* entities, genes and thoughts each hold a buffer of their own
C21_Witness ==
    /\ rev = "A" /\ active_entity_count = INITIAL_ENTITIES
    /\ \A i \in Pooled(active_entity_count) :
           /\ entity_pool[i].state.data # NULL
           /\ entity_pool[i].genome # NULL
           /\ genes[entity_pool[i].genome].pattern.data # NULL
    /\ C21_ExclusiveOwnership

AllocationFailed(tr) == \E k \in DOMAIN tr : tr[k][1] = "kmalloc_failed"

\* a step of the boot in which an allocation was refused
BootFailure == last.op \in {"vocabulary", "init_entities", "tasks"} /\ AllocationFailed(trace)

TickRan == last.op = "loop" /\ last.arg = 1

SeededEntity(e) == e.state.valid /\ e.state.data # NULL /\ e.genome # NULL

Aged == \A i \in Pooled(active_entity_count) : entity_pool'[i].age = entity_pool[i].age + 1

\* the steps left to kmain within MaxSteps cover a whole interval
HorizonLeft == calls + UPDATE_INTERVAL + 2 < MaxSteps

C25_PatchProposedAndApplied ==
    rev = "C" => /\ <>(EventsOf(trace, "propose") # {})
                 /\ <>patch.applied

\* kmain proposes nothing and applies nothing: no entity has a mutation_rate
\* above 100, which the trigger asks for, and nothing calls apply_kernel_patch
C25_NoPatchFromBoot ==
    /\ EventsOf(trace, "propose") = {}
    /\ ~patch.applied /\ written = <<>>
    /\ \A i \in Pooled(active_entity_count) : entity_pool[i].mutation_rate <= 100

\* kmain has run its updates past the wrap of the counter, over entities
\* with the highest mutation_rate the code assigns, and no patch exists
C25_Witness ==
    /\ TickRan /\ calls > TICK_MODULUS
    /\ \E i \in Pooled(active_entity_count) :
           entity_pool[i].mutation_rate = 100 /\ entity_pool[i].fitness_score > 0
    /\ ~patch.applied /\ written = <<>>

UpdateRan == last'.op = "tick" \/ (last'.op = "loop" /\ last'.arg = 1)

\* C26: a non-skipped dormant entity with an active ring neighbour becomes
\* active and broadcasts, a non-skipped active entity with no active ring
\* neighbour becomes dormant, any other keeps is_active.  No run evaluates the
\* rule on an entity that satisfies either condition: the formula states that
\* no update changes is_active or records an activation, and that the
\* entities the rule does evaluate (src/holographic_kernel.c) keep the flag.
C26_RuleNeverFires ==
    [][UpdateRan /\ ~crashed'
        => /\ \A i \in Pooled(active_entity_count) :
                  entity_pool'[i].is_active = entity_pool[i].is_active
           /\ EventsOf(trace', "broadcast") = {}
           /\ collective' = collective]_vars

\* src/holographic_kernel.c: an update over active entities whose ring
\* neighbours are active
C26_UnchangedWitness ==
    /\ rev = "H" /\ TickRan /\ active_entity_count = 2
    /\ \A i \in Pooled(active_entity_count) :
           /\ entity_pool[i].is_active
           /\ entity_pool[RingPrev(i, active_entity_count)].is_active
           /\ entity_pool[i].age > 1

Resonating(e) ==
    {t \in Pooled(collective.thought_count) :
         compute_similarity(e.state, collective.thought_space[t]) > 600}

\* C27: each thought whose similarity to the state of a non-skipped entity
\* exceeds 0.6 adds 2 to fitness_score, and the committed state is the merged
\* one.  The only thoughts that resonate in a run are equal to the state, so
\* the merged state and the state before the merges are the same vector: the
\* formula states the accumulation (src/holographic_kernel.c).
C27_ResonanceAccumulates ==
    [][UpdateRan /\ rev = "H" /\ ~crashed'
        => \A i \in Pooled(active_entity_count) :
               /\ entity_pool'[i].fitness_score
                      = entity_pool[i].fitness_score + 2 * Cardinality(Resonating(entity_pool[i]))
               /\ entity_pool'[i].state = entity_pool[i].state
               /\ \A t \in Resonating(entity_pool[i]) :
                      collective.thought_space[t].hash_sig = entity_pool[i].state.hash_sig]_vars

\* an entity that has resonated in two updates
C27_ResonanceWitness ==
    /\ rev = "H" /\ TickRan
    /\ \E i \in Pooled(active_entity_count) :
           entity_pool[i].fitness_score >= 4 /\ Resonating(entity_pool[i]) # {}

PressureBroadcasts(tr) ==
    {k \in EventsOf(tr, "broadcast") : tr[k][2] = hash_data("SYSTEM_MEMORY_PRESSURE")}

\* what the collector does after its broadcast: records swept, entities
\* reclaimed, genes evicted or spared
CollectorWork(tr) ==
    EventsOf(tr, "sweep") \cup EventsOf(tr, "deactivate")
        \cup EventsOf(tr, "evict") \cup EventsOf(tr, "spared")

\* C28: a kfree that runs the collector adds exactly one memory-pressure
\* thought, broadcast before any record is swept or entity examined; the
\* collector's re-entries broadcast none.
C28_OnePressureThoughtPerCollection ==
    [][(last'.op = "kfree" /\ ~crashed' /\ GcRan(trace'))
        => /\ Cardinality(PressureBroadcasts(trace')) = 1
           /\ \A k \in PressureBroadcasts(trace'), j \in CollectorWork(trace') : k < j]_vars

\* a kfree that ran the collector, its one pressure thought ahead of the work
C28_Witness ==
    /\ last.op = "kfree" /\ ~crashed /\ GcRan(trace)
    /\ Cardinality(PressureBroadcasts(trace)) = 1
    /\ CollectorWork(trace) # {}
    /\ \A k \in PressureBroadcasts(trace), j \in CollectorWork(trace) : k < j

\* the pointers of the records of a list, in list order
PtrsOf(pool, head) == [k \in DOMAIN ListOf(pool, head) |-> pool[ListOf(pool, head)[k]].ptr]

LivePtrs == PtrsOf(metadata_pool, allocation_list)

GarbagePtrs == {metadata_pool[b].ptr : b \in {x \in LiveBlocks : metadata_pool[x].is_garbage}}

\* C29: when a step of rev A in which the collector ran returns, no record of
\* the live list is flagged; the records that were live, not flagged and not
\* passed to kfree in the step are still in the live list in their order;
\* only flagged records went to the free pool; gc_metadata_count grew by the
\* number of records that were returned.
C29_SweepReclaimsExactlyGarbage ==
    [][(rev = "A" /\ GcRan(trace') /\ ~crashed')
        => LET freedNow == PassedToFree(trace')
               Stays(p) == p \notin GarbagePtrs /\ p \notin freedNow
               kept == SelectSeq(LivePtrs, Stays)
               Kept(p) == \E k \in DOMAIN kept : kept[k] = p
           IN  /\ GarbagePtrs' = {}
               /\ SelectSeq(LivePtrs', Kept) = kept
               /\ Swept(trace') \subseteq GarbagePtrs \cup freedNow
               /\ gc_metadata_count'
                      = gc_metadata_count + Cardinality(EventsOf(trace', "sweep"))]_vars

\* a collection that reclaimed two records and left two live ones in place
C29_Witness ==
    /\ rev = "A" /\ GcRan(trace) /\ ~crashed
    /\ Cardinality(EventsOf(trace, "sweep")) >= 2
    /\ gc_metadata_count >= 2
    /\ Len(LivePtrs) >= 2
    /\ GarbagePtrs = {}

\* C30: a collection removes from an active entity with more than one gene
\* the first gene of minimal fitness and nothing else.  No run brings an
\* entity with more than one gene before a collector: in the builds that
\* have a collector every pooled entity has at most one gene, and the build
\* that gives its entities two genes never runs a collection.
C30_NoCollectionMeetsTwoGenes ==
    /\ rev \in {"A", "C"} =>
           \A i \in Pooled(active_entity_count) : entity_pool[i].gene_count <= 1
    /\ rev = "H" => ~GcRan(trace) /\ EventsOf(trace, "evict") = {}

\* src/holographic_kernel.c: entities with two genes, updated, none evicted
C30_TwoGenesWitness ==
    /\ rev = "H" /\ TickRan
    /\ \E i \in Pooled(active_entity_count) : entity_pool[i].gene_count = 2

(* --------------------------- the last ten claims ----------------------- *)
\* the thought the client broadcast: a valid pattern of signature hash
ThoughtOf(hash) ==
    [data |-> kernel_heap, capacity |-> INITIAL_DIMENSIONS,
     active_dims |-> INITIAL_DIMENSIONS, hash_sig |-> hash, valid |-> TRUE]

\* compute_coherence over the buffer c without its newest slot
PriorCoherence(c, thought) ==
    compute_coherence([rev |-> rev, collective |-> [c EXCEPT !.thought_count = @ - 1]],
                      thought)

\* the event of the client's own thought: the last broadcast of the call
LastBroadcast(tr) ==
    CHOOSE k \in EventsOf(tr, "broadcast") : \A j \in EventsOf(tr, "broadcast") : j <= k

\* C31: the coherence a broadcast feeds into global_coherence is the average
\* similarity of the thought with the thoughts that were in the buffer before
\* it (after any eviction), the appended copy left out, and 1.0 when the
\* buffer held none.
C31_CoherenceAgainstPriorThoughts ==
    [][(last'.op = "broadcast" /\ last'.res = 1 /\ ~crashed')
        => LET prior == PriorCoherence(collective', ThoughtOf(last'.arg))
           IN  /\ trace'[LastBroadcast(trace')][3] = prior
               /\ Cardinality(EventsOf(trace', "broadcast")) = 1
                      => collective'.global_coherence
                             = (collective.global_coherence * 9 + prior) \div 10]_vars

\* a second, different thought whose copy was stored: the coherence printed is
\* the average with the copy, not the similarity with the thought before it
C31_Witness ==
    /\ rev = "A" /\ last.op = "broadcast" /\ last.res = 1 /\ ~crashed
    /\ collective.thought_count = 2
    /\ \A i \in 0..1 : collective.thought_space[i].data # NULL
    /\ collective.thought_space[0].hash_sig # last.arg
    /\ PriorCoherence(collective, ThoughtOf(last.arg)) = 0
    /\ trace[LastBroadcast(trace)][3] = 500

\* C32: a tick that returns leaves every pooled entity exactly one tick
\* older, active or not and whichever path its update took; no call makes a
\* pooled entity younger.
C32_EveryTickAgesEveryEntity ==
    [][/\ (last'.op = "tick" /\ ~crashed') => Aged
       /\ \A i \in Pooled(active_entity_count) :
              entity_pool'[i].age >= entity_pool[i].age]_vars

\* a tick has aged an entity the collector had deactivated and one that is
\* still active, both skipped for lack of arena
C32_Witness ==
    /\ rev = "C" /\ last.op = "tick" /\ ~crashed
    /\ \E i \in Pooled(active_entity_count) :
           i \in deactivated /\ ~entity_pool[i].is_active /\ entity_pool[i].age > 0
    /\ \E i \in Pooled(active_entity_count) :
           entity_pool[i].is_active /\ entity_pool[i].age > 0

\* the float a numerator becomes lies in [-1.0, 1.0): as an unsigned value of
\* 32 bits it is below 1000 (it cannot be negative)
InUnitRange(v) == v.hi = 0 /\ v.lo < 1000

\* C34: a dimension is populated only when the advanced seed is a multiple of
\* 10, and the numerator of every populated value, in the code's unsigned
\* arithmetic, lies in [-1000, 1000).
C34_PopulatedValuesInUnitRange ==
    pc = "create" /\ lcg.i > 0
        => /\ lcg.populated => lcg.seed % 10 = 0 /\ lcg.seed <= M31
           /\ ~lcg.populated => lcg.value = Zero32
           /\ lcg.populated => InUnitRange(lcg.value)

\* a populated dimension whose numerator wrapped: seed % 2000 below 1000
C34_Witness ==
    /\ pc = "create" /\ lcg.populated
    /\ lcg.seed % 2000 < 1000
    /\ lcg.value.hi = 65535 /\ lcg.value.lo >= 65536 - 1000

RECURSIVE Walk(_, _, _)
\* the records met from head along next, at most fuel of them
Walk(pool, head, fuel) ==
    IF head = NULL \/ fuel = 0 THEN <<>>
    ELSE <<head>> \o Walk(pool, pool[head].next, fuel - 1)

FreeRecords == Walk(metadata_pool, free_metadata_list, MAX_ALLOCATIONS + 1)

LiveRecords == Walk(metadata_pool, allocation_list, MAX_ALLOCATIONS + 1)

Members(seq) == {seq[k] : k \in DOMAIN seq}

\* C35: in the build with the record pool, between calls every one of the
\* MAX_ALLOCATIONS records is on exactly one of the free list and the live
\* list, both lists end in NULL without meeting a record twice, and their
\* lengths add up to MAX_ALLOCATIONS.
C35_RecordsAreConserved ==
    rev = "A" =>
        /\ Len(FreeRecords) + Len(LiveRecords) = MAX_ALLOCATIONS
        /\ Members(FreeRecords) \cup Members(LiveRecords) = 1..MAX_ALLOCATIONS
        /\ Members(FreeRecords) \cap Members(LiveRecords) = {}
        /\ Cardinality(Members(FreeRecords)) = Len(FreeRecords)
        /\ Cardinality(Members(LiveRecords)) = Len(LiveRecords)

\* the collector has returned records to the free list, whose head is one of
\* them, while other records are live
C35_Witness ==
    /\ rev = "A" /\ ~crashed /\ GcRan(trace)
    /\ gc_metadata_count >= 2
    /\ allocation_list # NULL
    /\ free_metadata_list # NULL
    /\ metadata_pool[free_metadata_list].is_garbage
    /\ C35_RecordsAreConserved

\* the deepest nesting of the collector in a call
Nesting(tr) ==
    IF EventsOf(tr, "gc_enter") = {} THEN 0
    ELSE LET k == CHOOSE k \in EventsOf(tr, "gc_enter") :
                      \A j \in EventsOf(tr, "gc_enter") : tr[j][2] <= tr[k][2]
         IN  tr[k][2]

\* the vectors kmalloc can still hand out above heap_offset: a request is
\* refused when it would end at or past the end of the arena
VectorsLeft ==
    IF heap_offset >= KERNEL_HEAP_SIZE THEN 0
    ELSE (KERNEL_HEAP_SIZE - heap_offset - 1) \div (INITIAL_DIMENSIONS * SIZEOF_FLOAT)

FreeEvents(tr) ==
    EventsOf(tr, "kfree") \cup EventsOf(tr, "kfree_unknown")
        \cup EventsOf(tr, "kfree_warning")

\* the pointers a call has passed to kfree more than once
ReleasedTwice(tr) ==
    {tr[i][2] : i \in {k \in FreeEvents(tr) :
                          \E j \in FreeEvents(tr) : j # k /\ tr[j][2] = tr[k][2]}}

\* C37: no call of the kernel passes the same pointer to kfree twice, the
\* frees made by nested runs of the collector included.
C37_NoPointerReleasedTwice == ReleasedTwice(trace) = {}

\* rev A: a broadcast into a full buffer has passed the buffer of slot 0 to
\* kfree from the eviction and again from the eviction of the broadcast the
\* collector made, and that buffer had been returned by kmalloc
C37_Witness ==
    /\ rev = "A" /\ last.op = "broadcast" /\ ~crashed
    /\ Nesting(trace) >= 1
    /\ \E p \in ReleasedTwice(trace) : \E k \in 1..Len(returned) : returned[k][1] = p

RECURSIVE GenomeChain(_, _, _)
\* the genes reached from head through next, at most fuel of them
GenomeChain(gs, head, fuel) ==
    IF head = NULL \/ fuel = 0 \/ head \notin DOMAIN gs THEN <<>>
    ELSE <<head>> \o GenomeChain(gs, gs[head].next, fuel - 1)

\* kmalloc has returned p and p has not been passed to kfree since: its
\* record is on allocation_list and is not flagged
LiveBlock(p) ==
    LET b == find_block(metadata_pool, allocation_list, p)
    IN  b # NULL /\ ~metadata_pool[b].is_garbage

\* C38: for every pooled entity gene_count is the number of genes reached
\* from its genome head, and in the builds whose kfree keeps records none of
\* those genes has been freed.
C38_GeneCountMatchesGenome ==
    \A i \in Pooled(active_entity_count) :
        LET chain == GenomeChain(genes, entity_pool[i].genome, MAX_ALLOCATIONS)
        IN  /\ entity_pool[i].gene_count = Len(chain)
            /\ rev \in {"A", "C"} => \A k \in 1..Len(chain) : LiveBlock(chain[k])

\* rev A: initialize_emergent_entities has returned, the first entity has its
\* gene and a later one, whose create_gene failed, has gene_count 1 and no
\* genome
C38_Witness ==
    /\ rev = "A" /\ last.op = "init_entities" /\ ~crashed
    /\ \E i, j \in Pooled(active_entity_count) :
           /\ entity_pool[i].genome # NULL /\ entity_pool[i].gene_count = 1
           /\ LiveBlock(entity_pool[i].genome)
           /\ entity_pool[j].genome = NULL /\ entity_pool[j].gene_count = 1

\* the slots of the thought buffer in use
ThoughtSlots == 0..(collective.thought_count - 1)

\* C39: every slot of the thought buffer below thought_count is valid and
\* holds a buffer, and in the builds whose kfree keeps records that buffer is
\* allocated and has not been freed.
C39_ThoughtSlotsHoldBuffers ==
    \A i \in ThoughtSlots :
        /\ collective.thought_space[i].valid
        /\ collective.thought_space[i].data # NULL
        /\ rev \in {"A", "C"} => LiveBlock(collective.thought_space[i].data)

\* rev A: a broadcast whose deep copy failed for lack of arena has returned
\* and its slot is in use, marked valid and without buffer
C39_Witness ==
    /\ rev = "A" /\ last.op = "broadcast" /\ ~crashed
    /\ EventsOf(trace, "kmalloc_failed") # {}
    /\ EventsOf(trace, "gc_enter") = {}
    /\ collective.thought_count >= 1
    /\ collective.thought_space[collective.thought_count - 1].valid
    /\ collective.thought_space[collective.thought_count - 1].data = NULL

\* the write w = <<address, byte count>> lies inside the arena
WriteInsideArena(w) ==
    /\ w[1] >= kernel_heap
    /\ w[1] + w[2] <= kernel_heap + KERNEL_HEAP_SIZE

\* C40: in the build that tests the target address, every write of an
\* accepted apply lies inside the arena: it starts at or after the arena's
\* base and ends at or before its end.
C40_WritesInsideArena ==
    rev = "C" => \A k \in 1..Len(written) : WriteInsideArena(written[k])

\* rev C has accepted a patch whose address passed the test of the arena and
\* whose payload is below the ceiling, and the write ends past the arena
C40_Witness ==
    /\ rev = "C" /\ last.op = "apply" /\ last.arg = 0 /\ last.res = 1
    /\ patch.applied
    /\ ~PatchOutsideArena(patch) /\ ~PatchOversize(patch)
    /\ written[Len(written)][1] = patch.address
    /\ written[Len(written)][1] + written[Len(written)][2]
           > kernel_heap + KERNEL_HEAP_SIZE

====
